---- MODULE Spec2Model ----
(***************************************************************************)
(* A model of the caching core of fbproxy: the LRU (lru.py), the           *)
(* HashedDictionary (hashdict.py), the ProxyLruCache (cache.py), the App   *)
(* registry (apps.py), the ProxyRequestHandler (requesthandler.py) and the *)
(* RealtimeUpdateHandler (rtendpoint.py).                                  *)
(*                                                                         *)
(* Python objects that are shared by reference (LRU nodes, dictionaries)   *)
(* live in heaps indexed by small integers; None is 0.  A heap cell that   *)
(* no reference reaches is collected, as Python's collector does, so that  *)
(* its index can be used again.                                            *)
(***************************************************************************)
EXTENDS Integers, Sequences, FiniteSets, TLC

\* ------------------------------------------------------------------ bounds
MaxSize == 2
MaxNodes == 4
\* The nodes of the proxy's LRU a handler may leave behind.
MaxHeap == 3
\* random.randint(1, 1000000000) draws the token from 1..MaxToken.
MaxToken == 3

None == 0
Sizes == 1..MaxSize

\* ------------------------------------------------------------ lru.py: Node
Node(key, value) ==
  [key |-> key, value |-> value, prev |-> None, successor |-> None]

\* Node.remove: the statements run in order, each reading the fields the
\* earlier ones wrote (the node may be its own neighbour).
remove(ns, self) ==
  LET ns1 == IF ns[self].prev # None
             THEN [ns EXCEPT ![ns[self].prev].successor = ns[self].successor]
             ELSE ns
      ns2 == IF ns1[self].successor # None
             THEN [ns1 EXCEPT ![ns1[self].successor].prev = ns1[self].prev]
             ELSE ns1
  IN  [ns2 EXCEPT ![self].prev = None, ![self].successor = None]

\* Node.setnext
setnext(ns, self, next) ==
  LET ns1 == [ns EXCEPT ![self].successor = next]
  IN  IF next # None
      THEN LET ns2 == [ns1 EXCEPT ![self].prev = ns1[next].prev]
               ns3 == [ns2 EXCEPT ![next].prev = self]
           IN  IF ns3[self].prev # None
               THEN [ns3 EXCEPT ![ns3[self].prev].successor = self]
               ELSE ns3
      ELSE [ns1 EXCEPT ![self].prev = None]

\* ------------------------------------------------------------- lru.py: LRU
\* LRU.__init__
LRU(size) ==
  [count |-> 0, size |-> size, head |-> None, tail |-> None,
   index |-> <<>>, nodes |-> <<>>, err |-> "ok"]

\* The cells some reference still reaches, in the order a walk from head,
\* tail and the index entries (keys in the order of keys) finds them.
RECURSIVE Walk(_, _, _)
Walk(ns, seq, i) ==
  IF i > Len(seq) THEN seq
  ELSE LET n    == seq[i]
           seen == {seq[j] : j \in 1..Len(seq)}
           s1   == IF ns[n].successor \notin seen \cup {None}
                   THEN Append(seq, ns[n].successor) ELSE seq
           s2   == IF ns[n].prev \notin seen \cup {None, ns[n].successor}
                   THEN Append(s1, ns[n].prev) ELSE s1
       IN  Walk(ns, s2, i + 1)

RECURSIVE Distinct(_)
Distinct(seq) ==
  IF seq = <<>> THEN <<>>
  ELSE LET r == Distinct(SubSeq(seq, 1, Len(seq) - 1))
           x == seq[Len(seq)]
       IN  IF x = None \/ x \in {r[j] : j \in 1..Len(r)} THEN r
           ELSE Append(r, x)

\* Python's collector: a node no reference reaches is dropped, and the
\* nodes left are numbered in the order of the walk (a node's number is
\* its identity only).
Collect(l, keys) ==
  LET roots == Distinct(<<l.head, l.tail>> \o
                 [i \in 1..Len(keys) |->
                    IF keys[i] \in DOMAIN l.index THEN l.index[keys[i]]
                    ELSE None])
      live  == Walk(l.nodes, roots, 1)
      at(n) == IF n = None THEN None
               ELSE CHOOSE i \in 1..Len(live) : live[i] = n
  IN  [l EXCEPT !.head  = at(l.head), !.tail = at(l.tail),
                !.index = [k \in DOMAIN l.index |-> at(l.index[k])],
                !.nodes = [i \in 1..Len(live) |->
                             [l.nodes[live[i]] EXCEPT
                                !.prev = at(@), !.successor = at(@)]]]

HasRoom(l) == Len(l.nodes) < MaxNodes
NewId(l) == Len(l.nodes) + 1

\* LRU.checksize: a None tail raises AttributeError at node.key, a key that
\* is not in the index raises KeyError at the del; either leaves the LRU as
\* it is at that statement.
RECURSIVE checksize(_)
checksize(l) ==
  IF l.count > l.size
  THEN IF l.tail = None
       THEN [l EXCEPT !.err = "AttributeError"]
       ELSE LET node == l.tail
                key  == l.nodes[node].key
            IN  IF key \notin DOMAIN l.index
                THEN [l EXCEPT !.err = "KeyError"]
                ELSE checksize(
                       [l EXCEPT !.index = [k \in DOMAIN l.index \ {key}
                                              |-> l.index[k]],
                                 !.tail  = l.nodes[node].prev,
                                 !.nodes = remove(l.nodes, node),
                                 !.count = @ - 1])
  ELSE l

\* LRU.__contains__
LRU_contains(l, key) == key \in DOMAIN l.index

\* LRU.__getitem__: the pair of the LRU afterwards and the value returned.
LRU_getitem(l, key) ==
  IF key \in DOMAIN l.index
  THEN LET node == l.index[key]
           ns   == setnext(remove(l.nodes, node), node, l.head)
       IN  [lru |-> [l EXCEPT !.nodes = ns], value |-> ns[node].value]
  ELSE [lru |-> l, value |-> None]

\* LRU.__setitem__
LRU_setitem(l, key, value) ==
  IF key \in DOMAIN l.index
  THEN LET node == l.index[key]
           ns   == setnext(remove(l.nodes, node), node, l.head)
       IN  checksize((
             [l EXCEPT !.nodes = [ns EXCEPT ![node].value = value],
                       !.head  = node]))
  ELSE LET node == NewId(l)
           ns0  == Append(l.nodes, Node(key, value))
           idx  == [k \in DOMAIN l.index \cup {key} |->
                      IF k = key THEN node ELSE l.index[k]]
           tl   == IF l.head = None THEN node ELSE l.tail
       IN  checksize((
             [l EXCEPT !.index = idx, !.tail = tl,
                       !.nodes = setnext(ns0, node, l.head),
                       !.head  = node, !.count = @ + 1]))

\* LRU.__delitem__
LRU_delitem(l, key) ==
  IF key \in DOMAIN l.index
  THEN LET node == l.index[key]
           tl   == IF node = l.tail THEN l.nodes[node].prev ELSE l.tail
           hd   == IF node = l.head THEN l.nodes[node].successor ELSE l.head
       IN  checksize((
             [l EXCEPT !.tail = tl, !.head = hd,
                       !.index = [k \in DOMAIN l.index \ {key} |-> l.index[k]],
                       !.count = @ - 1,
                       !.nodes = remove(l.nodes, node)]))
  ELSE checksize(l)

\* ======================================================================
\* The proxy: requesthandler.py, cache.py, hashdict.py, apps.py,
\* rtendpoint.py.
\* ======================================================================

\* A value a Python dict does not hold / a parameter the query lacks.
Absent == "<absent>"

RECURSIVE Join(_, _)
\* sep.join(parts)
Join(parts, sep) ==
  IF Len(parts) = 0 THEN ""
  ELSE IF Len(parts) = 1 THEN parts[1]
  ELSE parts[1] \o sep \o Join(Tail(parts), sep)

Range(f) == {f[x] : x \in DOMAIN f}

\* dict[key] = value and del dict[key] on a Python dict.
DictSet(d, key, value) ==
  [k \in DOMAIN d \cup {key} |-> IF k = key THEN value ELSE d[k]]
DictDel(d, key) == [k \in DOMAIN d \ {key} |-> d[k]]

\* ------------------------------------------------------- requesthandler.py
USER_FIELDS == <<"first_name", "last_name", "name", "hometown", "location",
                 "about", "bio", "relationship_status", "significant_other",
                 "work", "education", "gender">>

INVALIDATE_MAP ==
  [feed |-> <<"statuses", "feed", "links">>, links |-> <<"feed", "links">>]

connections_blacklist ==
  {"home", "tagged", "posts", "likes", "photos", "albums", "videos",
   "groups", "notes", "events", "inbox", "outbox", "updates"}

\* An access token is the sequence of its pieces and separators, as in
\* <<"42", "|", "s", "-", "u1", "|", "t">> for 42|s-u1|t.
RECURSIVE Split(_, _, _)
\* str.split(sep, maxsplit) (maxsplit < 0: no limit): the list of the
\* pieces, each the concatenation of the atoms between separators.
Split(tok, sep, maxsplit) ==
  LET at == {i \in 1..Len(tok) : tok[i] = sep}
  IN  IF at = {} \/ maxsplit = 0 THEN <<tok>>
      ELSE LET i == CHOOSE j \in at : \A m \in at : j <= m
           IN  <<SubSeq(tok, 1, i - 1)>> \o
               Split(SubSeq(tok, i + 1, Len(tok)), sep, maxsplit - 1)

\* ProxyRequestHandler.parse_access_token: the 4 pieces, or <<>> for the
\* False it returns (IndexError when there is no '-', or not 4 pieces).
parse_access_token(acctok) ==
  LET acctoken_firstsplit == Split(acctok, "-", 1)
  IN  IF Len(acctoken_firstsplit) < 2 THEN <<>>
      ELSE LET acctoken_all == Split(acctoken_firstsplit[1], "|", -1) \o
                               Split(acctoken_firstsplit[2], "|", -1)
           IN  IF Len(acctoken_all) # 4 THEN <<>>
               ELSE [i \in 1..4 |-> Join(acctoken_all[i], "")]

\* A PATH_INFO that keeps its leading slash whatever the gate made of it.
PathStr_slashed(path) == "/" \o Join(path.parts, "/")

\* PATH_INFO is the pair of its leading slash and its segments.
PathStr(path) == (IF path.lead THEN "/" ELSE "") \o Join(path.parts, "/")
\* '/' in path
HasSlash(path) == path.lead \/ Len(path.parts) > 1

\* ------------------------------------------------------------ hashdict.py
\* HashedDictionary.__init__
HashedDictionary == [content |-> <<>>, keymap |-> <<>>]

\* hashlib.sha1(data).digest(): one digest per body.
sha1(data) == <<"sha1", data>>

\* HashedDictionary.__getitem__ for a key of keymap (for another key it
\* returns None).  A hash that content lacks raises KeyError: no value.
HD_getitem(hd, key) == hd.content[hd.keymap[key]]
\* Whether __getitem__ raises KeyError.
HD_getitem_raises(hd, key) ==
  key \in DOMAIN hd.keymap /\ hd.keymap[key] \notin DOMAIN hd.content

\* A __setitem__ that records the sub-key and never the value.
HD_setitem_keymap_only(hd, key, data) ==
  [keymap  |-> DictSet(hd.keymap, key, sha1(data[2])),
   content |-> hd.content]

\* HashedDictionary.__setitem__
HD_setitem(hd, key, data) ==
  LET stored_data == data[1]
      valhash     == sha1(data[2])
  IN  [keymap  |-> DictSet(hd.keymap, key, valhash),
       content |-> IF valhash \notin DOMAIN hd.content
                   THEN DictSet(hd.content, valhash, stored_data)
                   ELSE hd.content]

\* HashedDictionary.__contains__
HD_contains(hd, key) == key \in DOMAIN hd.keymap

\* HashedDictionary.contains_hash
contains_hash(hd, valhashdata) == sha1(valhashdata) \in DOMAIN hd.content

\* ---------------------------------------------------------------- apps.py
\* config.get(name): None (Absent) when the record lacks the name.
ConfigGet(config, name, default) ==
  IF name \in DOMAIN config THEN config[name] ELSE default

\* App.__init__, without the users set and the lock, which are state.
App(config) ==
  LET bad_fields == ConfigGet(config, "blacklist_fields", {})
      bad_conns  == ConfigGet(config, "blacklist_connections", {})
  IN  [id          |-> config.app_id,
       cred        |-> ConfigGet(config, "app_cred", Absent),
       secret      |-> ConfigGet(config, "app_secret", Absent),
       good_fields |-> ConfigGet(config, "whitelist_fields", {}) \ bad_fields,
       good_conns  |-> ConfigGet(config, "whitelist_connections", {})
                         \ bad_conns]

RECURSIVE Intersect(_)
\* reduce(lambda x, y: x & y, sets), for a non-empty list of sets
Intersect(sets) ==
  IF Len(sets) = 1 THEN sets[1] ELSE sets[1] \cap Intersect(Tail(sets))

\* apps.init: the dictionary of the configured apps, with the default app
\* added when the configuration has none (reduce raises TypeError on an
\* empty list, reported as the string "TypeError").
init(configapps) ==
  LET ids   == {configapps[i].app_id : i \in 1..Len(configapps)}
      last(id) == CHOOSE i \in 1..Len(configapps) :
                    /\ configapps[i].app_id = id
                    /\ \A j \in 1..Len(configapps) :
                         configapps[j].app_id = id => j <= i
      apps  == [id \in ids |-> App(configapps[last(id)])]
      order == CHOOSE q \in [1..Cardinality(ids) -> ids] : Range(q) = ids
  IN  IF "default" \in ids THEN apps
      ELSE IF ids = {} THEN "TypeError"
      ELSE DictSet(apps, "default",
             [App([app_id |-> "default"]) EXCEPT
                !.good_fields =
                   Intersect([i \in 1..Len(order) |-> apps[order[i]].good_fields]),
                !.good_conns =
                   Intersect([i \in 1..Len(order) |-> apps[order[i]].good_conns])])

\* Whether apps.init raises: reduce over the empty list of good_fields.
init_raises(configapps) ==
  LET ids == {configapps[i].app_id : i \in 1..Len(configapps)}
  IN  "default" \notin ids /\ ids = {}

\* A line 65 that forgets the users the app had.
users_add_alone(us, self, requestor) == [us EXCEPT ![self] = {requestor}]
\* A line 65 that adds nobody.
users_add_nobody(us, self, requestor) == us

\* self.users.add(requestor) (line 65) on the users sets of all apps.
users_add(us, self, requestor) == [us EXCEPT ![self] = @ \cup {requestor}]

\* check_user finds every requestee.
check_user_anyone(us, self, requestor, requestee, default) ==
  [users |-> us, ok |-> TRUE]

\* App.check_user on the users sets `us` of all apps: the sets afterwards
\* and the value returned.  default is an app id or Absent.
check_user(us, self, requestor, requestee, default) ==
  LET us1 == [us EXCEPT ![self] = @ \cup {requestor}]
      ok  == requestee \in us1[self]
      us2 == IF default # self /\ default # Absent
             THEN [us1 EXCEPT ![default] = @ \cup {requestor}]
             ELSE us1
  IN  [users |-> us2, ok |-> ok]

\* App.check_request
check_request(app, pathparts, fields) ==
  IF Len(pathparts) = 1
  THEN Range(fields) \ app.good_fields = {}
  ELSE IF Len(pathparts) = 2
  THEN pathparts[2] \in app.good_conns
  ELSE FALSE

\* ---------------------------------------------------------------- cache.py
\* A query is the record [access_token, fields, rest] of parse_qs's result:
\* the token (<<>> when the query has none), the list fields.split(',')
\* gives (<<>> when the query has no fields) and the other parameters,
\* urlencoded ("" when there are none).
\* An upstream response is [ok, status, reason, headers, body]; ok is FALSE
\* when the connection fails and fetchurl raises.  A body is [kind, members]:
\* the members of a JSON object in the order of the text, or a text that is
\* no JSON.

\* ProxyLruCache.__init__, with the heap of the HashedDictionary objects the
\* LRU's values refer to.
ProxyLruCache(size) == [cache |-> LRU(size), dicts |-> <<>>, lock |-> "free"]

\* urllib.urlencode(query) of what handle_request left in the query.
urlencode(query) ==
  Join((IF query.fields # <<>>
        THEN <<"fields=%5B%27" \o Join(query.fields, "%2C") \o "%27%5D">>
        ELSE <<>>) \o
       (IF query.rest # "" THEN <<query.rest>> ELSE <<>>), "&")

\* str.upper() of the header names the upstream sends and of 'me'
upper(name) ==
  CASE name = "Content-Length" -> "CONTENT-LENGTH"
    [] name = "content-length" -> "CONTENT-LENGTH"
    [] name = "Content-Type"   -> "CONTENT-TYPE"
    [] name \in {"me", "Me", "ME"} -> "ME"
    [] OTHER -> name

\* The loop of handle_request that removes the first Content-Length header.
StripContentLength(headers) ==
  LET at == {i \in 1..Len(headers) : upper(headers[i][1]) = "CONTENT-LENGTH"}
  IN  IF at = {} THEN headers
      ELSE LET i == CHOOSE j \in at : \A m \in at : j <= m
           IN  SubSeq(headers, 1, i - 1) \o SubSeq(headers, i + 1, Len(headers))

RECURSIVE TableOf(_)
TableOf(members) ==
  IF members = <<>> THEN <<>>
  ELSE DictSet(TableOf(SubSeq(members, 1, Len(members) - 1)),
               members[Len(members)][1], members[Len(members)][2])

\* _response_to_table: json.loads of a text that is no JSON raises
\* ValueError, which leaves the table empty.
_response_to_table(body) ==
  IF body.kind = "json" THEN TableOf(body.members) ELSE <<>>

\* The first character of a key.
FirstChar(key) ==
  CASE key = "_internal" -> "_"
    [] key = "_id"       -> "_"
    [] OTHER -> "a"

\* A get_response that dumps the whole table.
get_response_whole(table, fields) == [kind |-> "dumps", object |-> table]

\* get_response: json.dumps of the fields picked from the table.
get_response(table, fields) ==
  LET keys == IF fields # <<>>
              THEN Range(fields) \cap DOMAIN table
              ELSE {k \in DOMAIN table : FirstChar(k) # "_"}
  IN  [kind |-> "dumps", object |-> [k \in keys |-> table[k]]]

\* fetch_tuple: (statusline, headers, body, status), or the exception
\* fetchurl raises.
fetch_tuple(up) ==
  IF up.ok
  THEN [raised |-> FALSE,
        statusline |-> ToString(up.status) \o " " \o up.reason,
        headers |-> up.headers,
        body |-> up.body, status |-> up.status]
  ELSE [raised |-> TRUE, statusline |-> "socket.error", headers |-> <<>>,
        body |-> [kind |-> "none", members |-> <<>>], status |-> 0]

\* _fetchtable on the dictionary hashdict: the dictionary afterwards and
\* (statusline, headers, table, status), table being the body on an error.
_fetchtable(hashdict, key, up) ==
  LET stored(hd, v) ==
        [hashdict |-> hd, raised |-> FALSE,
         statusline |-> v.statusline, headers |-> v.headers,
         table |-> v.data, status |-> 200]
      set(hd) == stored(hd, HD_getitem(hd, key))
      fetched(r) ==
        IF r.raised \/ r.status # 200
        THEN [hashdict |-> hashdict, raised |-> r.raised,
              statusline |-> r.statusline, headers |-> r.headers,
              table |-> r.body, status |-> r.status]
        ELSE IF ~contains_hash(hashdict, r.body)
        THEN set(HD_setitem(hashdict, key,
                   << [statusline |-> r.statusline, headers |-> r.headers,
                       data |-> _response_to_table(r.body)],
                      r.body >>))
        ELSE set(HD_setitem(hashdict, key, <<None, r.body>>))
  IN  fetched(fetch_tuple(up))

NoBody == [kind |-> "none", members |-> <<>>]

\* What handle_request computes before it takes the lock (lines 53-71):
\* whether the table is used, the fields, the outer key and the sub-key.
Fingerprint(query, path) ==
  LET of(accesstoken_parts, usetable) ==
        [usetable |-> usetable,
         fields   |-> IF usetable THEN query.fields ELSE <<>>,
         key      |-> PathStr(path) \o "__" \o
                      (IF accesstoken_parts # <<>>
                       THEN accesstoken_parts[1] ELSE "0"),
         subkey   |-> (IF accesstoken_parts # <<>>
                       THEN accesstoken_parts[3] ELSE "0") \o "__" \o
                      urlencode([fields |-> IF usetable THEN <<>>
                                            ELSE query.fields,
                                 rest |-> query.rest])]
  IN  of(IF query.access_token # <<>>
         THEN parse_access_token(query.access_token) ELSE <<>>,
         ~HasSlash(path))

\* What a call of handle_request did: how it ended ("hit", "miss", "raise"
\* for an exception, "blocked" when it waits for the lock for ever), the
\* keys it computed, the dictionary it found or made (its place in the
\* heap, None before it has one), whether it fetched from the upstream, and
\* the (statusline, headers, body) it returned.
Handled(self, how, fp, hashdict, upstream, statusline, headers, body) ==
  [cache |-> self, how |-> how, key |-> fp.key, subkey |-> fp.subkey,
   fields |-> fp.fields, hashdict |-> hashdict, upstream |-> upstream,
   statusline |-> statusline, headers |-> headers, body |-> body]

\* The critical section of handle_request (lines 77-86): the cache
\* afterwards and the dictionary (its place in the heap) it found or made.
\* An exception raised between acquire and release leaves the lock held.
Locked(self, key, subkey) ==
  LET found(got) ==
        [self |-> [self EXCEPT
                     !.cache = got.lru,
                     !.lock = IF HD_getitem_raises(self.dicts[got.value], subkey)
                              THEN "held" ELSE "free"],
         hashdict |-> got.value]
      made(lru1) ==
        [self |-> [cache |-> lru1,
                   dicts |-> Append(self.dicts, HashedDictionary),
                   lock  |-> IF lru1.err # "ok" THEN "held" ELSE "free"],
         hashdict |-> Len(self.dicts) + 1]
  IN  IF LRU_contains(self.cache, key)
      THEN found(LRU_getitem(self.cache, key))
      ELSE made(LRU_setitem(self.cache, key, Len(self.dicts) + 1))

\* Step 3 of handle_request (lines 88-93).
Hit(self, hashdict, fp, value) ==
  Handled(self, "hit", fp, hashdict, 0, value.statusline, value.headers,
          IF fp.usetable THEN get_response(value.data, fp.fields)
          ELSE value.data)

\* Step 4 with the table (lines 97-109).  headers is the list the
\* dictionary stores: the removal of Content-Length shows in the stored
\* tuple.
MissTable(self, hashdict, fp, t) ==
  LET stripped(hs) ==
        Handled([self EXCEPT !.dicts[hashdict] =
                   [t.hashdict EXCEPT
                      !.content[t.hashdict.keymap[fp.subkey]].headers = hs]],
                "miss", fp, hashdict, 1, t.statusline, hs,
                get_response(t.table, fp.fields))
  IN  IF t.raised
      THEN Handled(self, "raise", fp, hashdict, 1, "exception", <<>>, NoBody)
      ELSE IF t.status # 200
      THEN Handled(self, "miss", fp, hashdict, 1,
                   t.statusline, t.headers, t.table)
      ELSE stripped(StripContentLength(t.headers))

\* Step 4 without the table (lines 110-115).
MissBody(self, hashdict, fp, r) ==
  IF r.raised
  THEN Handled(self, "raise", fp, hashdict, 1, "exception", <<>>, NoBody)
  ELSE Handled(IF r.status = 200
               THEN [self EXCEPT !.dicts[hashdict] =
                       HD_setitem(self.dicts[hashdict], fp.subkey,
                         << [statusline |-> r.statusline,
                             headers |-> r.headers, data |-> r.body],
                            r.body >>)]
               ELSE self,
               "miss", fp, hashdict, 1, r.statusline, r.headers, r.body)

\* ProxyLruCache.handle_request.  A call that finds the lock held never
\* returns.
handle_request(self, query, path, app, up) ==
  LET after(fp, in) ==
        IF in.self.lock = "held"
        THEN Handled(in.self, "raise", fp, in.hashdict, 0,
                     "exception", <<>>, NoBody)
        ELSE IF HD_contains(in.self.dicts[in.hashdict], fp.subkey)
        THEN Hit(in.self, in.hashdict, fp,
                 HD_getitem(in.self.dicts[in.hashdict], fp.subkey))
        ELSE IF fp.usetable
        THEN MissTable(in.self, in.hashdict, fp,
                       _fetchtable(in.self.dicts[in.hashdict], fp.subkey, up))
        ELSE MissBody(in.self, in.hashdict, fp, fetch_tuple(up))
      with(fp) ==
        IF self.lock = "held"
        THEN Handled(self, "blocked", fp, None, 0, "exception", <<>>, NoBody)
        ELSE after(fp, Locked(self, fp.key, fp.subkey))
  IN  with(Fingerprint(query, path))

\* The two keys ProxyLruCache.invalidate looks up.
InvalidateKeys(appid, url) == {url \o "__" \o appid, url \o "__0"}

\* An invalidation that deletes nothing.
Drop_nothing(l, key) == l

\* del self.cache[key] when the key is there, unless an earlier statement
\* raised.
Drop(l, key) ==
  IF l.err = "ok" /\ LRU_contains(l, key) THEN LRU_delitem(l, key) ELSE l

\* ProxyLruCache.invalidate, entered with the lock free.
invalidate(self, appid, url) ==
  LET left(l) == [self EXCEPT !.cache = l,
                              !.lock = IF l.err = "ok" THEN "free" ELSE "held"]
  IN  left(Drop(Drop(self.cache, url \o "__" \o appid), url \o "__0"))

RECURSIVE invalidate_all(_, _, _)
\* A loop of cache.invalidate(appid, url) over a list of urls: the cache
\* afterwards, the keys looked up by the calls that returned, and how the
\* loop ended: "done", the name of the exception a call raised, or "blocked"
\* when a call found the lock held (it never returns).
invalidate_all(self, appid, urls) ==
  LET rest(more) ==
        [more EXCEPT !.returned = @ \cup InvalidateKeys(appid, urls[1])]
      first(self1) ==
        IF self1.lock = "held"
        THEN [cache |-> self1, returned |-> {}, end |-> self1.cache.err]
        ELSE rest(invalidate_all(self1, appid, Tail(urls)))
  IN  IF urls = <<>> THEN [cache |-> self, returned |-> {}, end |-> "done"]
      ELSE IF self.lock = "held"
      THEN [cache |-> self, returned |-> {}, end |-> "blocked"]
      ELSE first(invalidate(self, appid, urls[1]))

\* ------------------------------------------------- requesthandler.py: gate
\* What a handler did:
\*   kind       "request" (proxy endpoint) or "update" (realtime endpoint)
\*   route      "pass_through", "do_cache", "exception" (the handler raised
\*              before either), "blocked" (an invalidation waits for the
\*              lock for ever) or, for an update, "update"
\*   user_ok    what check_user returned ("yes", "no"; "" when not called)
\*   how        how handle_request ended ("hit", "miss", "raise",
\*              "blocked"; "" when it was not called)
\*   key, subkey, fields   what handle_request computed
\*   hashdict   the dictionary handle_request found or made
\*   upstream   the number of fetches from the upstream
\*   statusline, headers, body   the response ("exception": none)
\*   invalidated   the outer keys looked up by the calls of
\*              cache.invalidate that returned
Did(kind, route, user_ok, h, invalidated) ==
  [kind |-> kind, route |-> route, user_ok |-> user_ok,
   how |-> h.how, key |-> h.key, subkey |-> h.subkey, fields |-> h.fields,
   hashdict |-> h.hashdict, upstream |-> h.upstream, statusline |-> h.statusline,
   headers |-> h.headers, body |-> h.body, invalidated |-> invalidated]

NotHandled(upstream, statusline, headers, body) ==
  [how |-> "", key |-> "", subkey |-> "", fields |-> <<>>,
   hashdict |-> None, upstream |-> upstream, statusline |-> statusline, headers |-> headers,
   body |-> body]

\* A pass_through that answers without asking the upstream.
pass_through_unfetched(up) == NotHandled(0, "200 OK", <<>>, NoBody)

\* ProxyRequestHandler.pass_through
pass_through(up) ==
  LET r == fetch_tuple(up)
  IN  IF r.raised THEN NotHandled(1, "exception", <<>>, NoBody)
      ELSE NotHandled(1, r.statusline, r.headers, r.body)

\* ProxyRequestHandler.cannotcache
cannotcache(env, uriparts) ==
  \/ env.REQUEST_METHOD # "GET"
  \/ Len(uriparts) > 2
  \/ Len(uriparts) = 2 /\ uriparts[2] \in connections_blacklist

\* The urls ProxyRequestHandler.invalidate_for_post invalidates.
invalidate_for_post(uriparts) ==
  IF Len(uriparts) # 2 THEN <<>>
  ELSE IF uriparts[2] \notin DOMAIN INVALIDATE_MAP THEN <<>>
  ELSE LET fields == INVALIDATE_MAP[uriparts[2]]
       IN  [i \in 1..Len(fields) |-> "/" \o uriparts[1] \o "/" \o fields[i]]

\* ProxyRequestHandler.__iter__ with the generator it returns run to its
\* end: the cache and the users sets afterwards, and what was done.  The
\* launcher passes no validator.  env is [REQUEST_METHOD, PATH_INFO, query],
\* PATH_INFO being the segments of the path (strip('/').split('/')).
ProxyRequestHandler(cache, us, apps, env, up) ==
  LET query_parms == env.query
      default == IF "default" \in DOMAIN apps THEN "default" ELSE Absent
      fields == IF query_parms.fields # <<>> THEN query_parms.fields
                ELSE USER_FIELDS
      failed == NotHandled(0, "exception", <<>>, NoBody)
      same(route, user_ok, users, did) ==
        [cache |-> cache, users |-> users,
         did |-> Did("request", route, user_ok, did, {})]
      \* invalidate_for_post, then pass_through
      post(posted) ==
        [cache |-> posted.cache, users |-> us,
         did |-> Did("request",
                     CASE posted.end = "done"    -> "pass_through"
                       [] posted.end = "blocked" -> "blocked"
                       [] OTHER                  -> "exception", "",
                     IF posted.end = "done" THEN pass_through(up)
                     ELSE failed,
                     posted.returned)]
      do_cache(users, h) ==
        [cache |-> h.cache, users |-> users,
         did |-> Did("request", "do_cache", "yes", h, {})]
      get(app, uriparts, cu) ==
        IF ~cu.ok
        THEN same("pass_through", "no", cu.users, pass_through(up))
        ELSE IF \/ cannotcache(env, uriparts)
                \/ ~check_request(apps[app], uriparts, fields)
        THEN same("pass_through", "yes", cu.users, pass_through(up))
        ELSE do_cache(cu.users,
                      handle_request(cache, query_parms,
                                     [lead |-> FALSE, parts |-> uriparts],
                                     apps[app], up))
      \* from "last chance to load an app" on; False[2] raises TypeError
      route(acctoken_pieces, app, uriparts) ==
        IF app = Absent
        THEN same("pass_through", "", us, pass_through(up))
        ELSE IF env.REQUEST_METHOD # "GET"
        THEN post(invalidate_all(cache, apps[app].id,
                                 invalidate_for_post(uriparts)))
        ELSE IF acctoken_pieces = <<>>
        THEN same("exception", "", us, failed)
        ELSE get(app, uriparts,
                 check_user(us, app, acctoken_pieces[3], uriparts[1], default))
      \* the app of the token, then fixurl; False[2] raises TypeError
      parsed(has_token, acctoken_pieces) ==
        IF upper(env.PATH_INFO[1]) = "ME" /\ acctoken_pieces = <<>>
        THEN same("exception", "", us, failed)
        ELSE route(acctoken_pieces,
                   IF has_token /\ acctoken_pieces # <<>>
                      /\ acctoken_pieces[1] \in DOMAIN apps
                   THEN acctoken_pieces[1] ELSE default,
                   IF upper(env.PATH_INFO[1]) = "ME" /\ acctoken_pieces[3] # ""
                   THEN [env.PATH_INFO EXCEPT ![1] = acctoken_pieces[3]]
                   ELSE env.PATH_INFO)
  IN  parsed(query_parms.access_token # <<>>,
             IF query_parms.access_token # <<>>
             THEN parse_access_token(query_parms.access_token)
             ELSE <<"", "", "", "">>)

\* ------------------------------------------------------------ rtendpoint.py
\* hmac.new(secret, data, hashlib.sha1).hexdigest()
hexdigest(secret, data) == "hmac-sha1(" \o secret \o "," \o data.text \o ")"

SetToSeq(S) == CHOOSE q \in [1..Cardinality(S) -> S] : Range(q) = S

Text(message) == [kind |-> "text", text |-> message]

\* The urls the loop of handle_update invalidates for one entry.
entry_urls(app, entry) ==
  LET uid     == entry.uid
      changed == Range(entry.changed_fields)
      conns   == SetToSeq(app.good_conns \cap changed)
  IN  (IF app.good_fields \cap changed # {} THEN <<uid>> ELSE <<>>) \o
      [i \in 1..Len(conns) |-> uid \o "/" \o conns[i]]

RECURSIVE update_entries(_, _, _, _)
\* The loop of handle_update over updates['entry'].  An entry that lacks
\* 'uid' or 'changed_fields' raises KeyError; the invalidations of the
\* entries before it are done.  The except clause of handle_update catches
\* a KeyError whatever statement of the loop raised it.
update_entries(self, app, app_id, entries) ==
  LET rest(one, more) == [more EXCEPT !.returned = @ \cup one.returned]
      first(one) ==
        IF one.end # "done" THEN one
        ELSE rest(one, update_entries(one.cache, app, app_id, Tail(entries)))
  IN  IF entries = <<>>
      THEN [cache |-> self, returned |-> {}, end |-> "done"]
      ELSE IF \/ "uid" \notin DOMAIN entries[1]
              \/ "changed_fields" \notin DOMAIN entries[1]
      THEN [cache |-> self, returned |-> {}, end |-> "KeyError"]
      ELSE first(invalidate_all(self, app_id, entry_urls(app, entries[1])))

\* A handle_update that looks at neither the app nor the signature.
handle_update_unchecked(cache, apps, env) ==
  LET looped(done) ==
        [cache |-> done.cache,
         did |-> Did("update", "update", "",
                     NotHandled(0, "200 OK", <<>>, Text("")), done.returned)]
  IN  looped(update_entries(cache, apps["42"], "42",
                            IF env.data.json /\ "entry" \in DOMAIN env.data.updates
                            THEN env.data.updates.entry ELSE <<>>))

\* RealtimeUpdateHandler.handle_update: the cache afterwards and what was
\* done.  env is [PATH_INFO, CONTENT_LENGTH, HTTP_X_HUB_SIGNATURE, data]:
\* PATH_INFO the pair of its first character and the rest, CONTENT_LENGTH
\* whether the header is there, the signature the list of an optional
\* "sha1=" and the digest (<<>> when the header is missing or empty), data
\* the body [text, json, updates]: json tells whether it is JSON and
\* updates is the object it holds.
handle_update(cache, apps, env) ==
  LET app_id == env.PATH_INFO[2]
      answer(c, statusline, message, invalidated) ==
        [cache |-> c,
         did |-> Did("update", "update", "",
                     NotHandled(0, statusline,
                                << <<"Content-type", "text/plain">> >>,
                                Text(message)),
                     invalidated)]
      sig0 == env.HTTP_X_HUB_SIGNATURE
      sig  == IF sig0[1] = "sha1=" THEN Tail(sig0) ELSE sig0
      app  == apps[app_id]
      looped(done) ==
        IF done.end \in {"blocked", "AttributeError"}
        THEN [cache |-> done.cache,
              did |-> Did("update",
                          IF done.end = "blocked" THEN "blocked" ELSE "exception",
                          "", NotHandled(0, "exception", <<>>, NoBody),
                          done.returned)]
        ELSE IF done.end = "KeyError"
        THEN answer(done.cache, "400 Bad Request",
                    "Missing fields caused key error", done.returned)
        ELSE answer(done.cache, "200 OK", "Updates successfully handled",
                    done.returned)
  IN  IF app_id \notin DOMAIN apps
      THEN answer(cache, "404 Not Found",
                  "The requested application was not found on this server", {})
      ELSE IF ~env.CONTENT_LENGTH
      THEN answer(cache, "400 Bad Request", "Missing content length", {})
      ELSE IF sig0 = <<>>
      THEN answer(cache, "403 Forbidden", "Request validation failed", {})
      ELSE IF app.secret # Absent /\ sig # <<hexdigest(app.secret, env.data)>>
      THEN answer(cache, "400 Bad Request", "Invalid signature.", {})
      ELSE IF ~env.data.json
      THEN answer(cache, "400 Bad Request", "Expected JSON.", {})
      ELSE IF "entry" \notin DOMAIN env.data.updates
      THEN answer(cache, "400 Bad Request",
                  "Missing fields caused key error", {})
      ELSE looped(update_entries(cache, app, app_id, env.data.updates.entry))

\* ----------------------------------------------------- the proxy as a whole
\* config.py's apps list: app 42 has a secret and subscribes to the fields
\* the gate asks for by default; app 7 has no secret.
ConfigApps ==
  << [app_id |-> "42", app_secret |-> "s42",
      whitelist_fields |-> Range(USER_FIELDS),
      whitelist_connections |-> {"feed", "links", "home"}],
     [app_id |-> "7",
      whitelist_fields |-> {"name"},
      whitelist_connections |-> {"feed"}] >>

\* apps is the registry launcher.py builds with apps.init(config.apps),
\* cache is the ProxyLruCache, users[a] the users set of app a.  watch is
\* an outer key that a returned cache.invalidate looked up and no
\* handle_request has asked for since ("" when no key is watched).
VARIABLES apps, cache, users, watch
\* The worker threads of the two servers: pc[w] is the statement worker w
\* is at and job[w] its local variables (<<>> when it has no request).
VARIABLES pc, job
\* locks[a] is App.lock of app a: "free" or the worker that holds it.
VARIABLE locks
\* The list of app records config.py holds.
VARIABLE configapps
\* A HashedDictionary on its own (the client of hashdict.py below).
VARIABLE hashdict
\* rturegister.randtoken: 0 until the first registration draws the token.
VARIABLE randtoken
\* The variables of the client of lru.py below.
VARIABLES lru, touched, mru, script

\* The worker threads.
Workers == {"w1", "w2"}

restVars == <<pc, job, locks, configapps, hashdict, randtoken>>
proxyVars ==
  <<apps, cache, users, watch, pc, job, locks, configapps, hashdict,
    randtoken>>
lruVars == <<lru, touched, mru, script>>
vars == <<lru, touched, mru, script, apps, cache, users, watch,
          pc, job, locks, configapps, hashdict, randtoken>>

\* The garbage collection of the two heaps of a ProxyLruCache: LRU nodes as
\* in Collect; a dictionary only a node outside the index refers to can not
\* be read any more (the LRU reads values through the index only).
Compact(self) ==
  LET l     == Collect(self.cache, SetToSeq(DOMAIN self.cache.index))
      inuse == {n \in 1..Len(l.nodes) : n \in Range(l.index)}
      order == SelectSeq([n \in 1..Len(l.nodes) |-> n], LAMBDA n : n \in inuse)
      at(n) == CHOOSE i \in 1..Len(order) : order[i] = n
  IN  [self EXCEPT
         !.cache = [l EXCEPT !.nodes =
                      [n \in 1..Len(l.nodes) |->
                         [l.nodes[n] EXCEPT !.value =
                            IF n \in inuse THEN at(n) ELSE None]]],
         !.dicts = [i \in 1..Len(order) |-> self.dicts[l.nodes[order[i]].value]]]

\* Access tokens: of user u1 under app 42, none, and one that is no user
\* token.
Token(app, uid) == <<app, "|", "s", "-", uid, "|", "t">>
NoToken == <<>>
BadToken == <<"abc">>

Env(method, path, token, fields, rest) ==
  [REQUEST_METHOD |-> method, PATH_INFO |-> path,
   query |-> [access_token |-> token, fields |-> fields, rest |-> rest]]

\* The answers of the upstream (the Graph API server).
Json(members) == [kind |-> "json", members |-> members]
Answer(status, reason, body) ==
  [ok |-> TRUE, status |-> status, reason |-> reason,
   headers |-> << <<"Content-Type", "text/javascript">>,
                  <<"Content-Length", "20">> >>,
   body |-> body]
Found ==
  Answer(200, "OK",
         Json(<< <<"name", "X">>, <<"about", "Z">>, <<"_id", "1">> >>))
NotFound == Answer(404, "Not Found", Json(<< <<"error", "no">> >>))
\* The connection to the upstream fails.
Unreachable == [Answer(0, "", NoBody) EXCEPT !.ok = FALSE, !.headers = <<>>]
Upstreams == {Found, NotFound, Unreachable}

\* The requests the clients send that the gate can hand to the cache,
Cacheable ==
  {Env("GET", p, Token("42", "u1"), <<>>, "") :
     p \in {<<"u1">>, <<"me">>, <<"u1", "feed">>}}
  \cup
  {Env("GET", <<"u1">>, Token("42", "u1"), <<"name", "gender">>, ""),
   Env("GET", <<"u1">>, NoToken, <<"name">>, "")}
\* and those it passes through or fails on.
Uncacheable ==
  {Env("GET", p, Token("42", "u1"), <<>>, "") :
     p \in {<<"u2">>, <<"u1", "home">>, <<"u1", "feed", "x">>}}
  \cup
  {Env("GET", <<"u1">>, Token("42", "u1"), <<"email">>, ""),
   Env("GET", <<"u1">>, BadToken, <<"name">>, ""),
   Env("GET", <<"me">>, BadToken, <<>>, ""),
   Env("POST", <<"u1", "feed">>, Token("42", "u1"), <<>>, ""),
   Env("POST", <<"u1">>, Token("42", "u1"), <<>>, ""),
   Env("POST", <<"u1", "feed">>, NoToken, <<>>, "")}
Requests == Cacheable \cup Uncacheable
\* Requests with other tokens: of an app the registry lacks, of a second
\* user, and none.
Guests ==
  {Env("GET", <<"u1">>, Token("9", "u1"), <<"name">>, ""),
   Env("GET", <<"u1">>, Token("42", "u2"), <<>>, ""),
   Env("GET", <<"u1">>, Token("42", "u2"), <<"name">>, ""),
   Env("GET", <<"ME">>, Token("42", "u2"), <<>>, ""),
   Env("GET", <<"me", "feed">>, Token("42", "u2"), <<>>, ""),
   Env("GET", <<"Me">>, Token("42", ""), <<"name">>, ""),
   Env("GET", <<"me">>, NoToken, <<"name">>, "")}

\* A request with the answer the upstream gives when it is asked.
Exchanges == Requests \X Upstreams

\* The update deliveries the realtime endpoint receives.
Entry(uid, changed) == [uid |-> uid, changed_fields |-> changed]
Bodies ==
  {[text |-> "D1", json |-> TRUE,
    updates |-> [object |-> "user",
                 entry |-> <<Entry("u1", <<"name">>)>>]],
   [text |-> "D2", json |-> TRUE,
    updates |-> [object |-> "user",
                 entry |-> <<Entry("u1", <<"feed", "email">>),
                             [uid |-> "u2"]>>]],
   [text |-> "D3", json |-> TRUE, updates |-> [object |-> "user"]],
   [text |-> "D4", json |-> FALSE, updates |-> <<>>]}

Delivery(id, cl, sig, data) ==
  [PATH_INFO |-> <<"/", id>>, CONTENT_LENGTH |-> cl,
   HTTP_X_HUB_SIGNATURE |-> sig, data |-> data]

Signed(id, cl, prefix, data) ==
  Delivery(id, cl, prefix \o <<hexdigest("s42", data)>>, data)

Deliveries ==
  {Signed(id, TRUE, <<"sha1=">>, data) : id \in {"42", "7"}, data \in Bodies}
  \cup
  {Delivery(id, TRUE, sig, data) :
     id \in {"42", "7", "99"}, sig \in {<<>>, <<"sha1=", "0000">>},
     data \in {d \in Bodies : d.text \in {"D1", "D4"}}}
  \cup
  {Signed("42", TRUE, <<>>, data) : data \in {d \in Bodies : d.text = "D1"}}
  \cup
  {Signed("42", FALSE, <<"sha1=">>, data) :
     data \in {d \in Bodies : d.text = "D1"}}
  \cup
  {Delivery("42", FALSE, <<>>, data) :
     data \in {d \in Bodies : d.text = "D1"}}

LruIdle == lru = LRU(1) /\ touched = "" /\ mru = <<>> /\ script = 0
\* No worker has a request, and the dictionary on its own is empty.
RestIdle ==
  /\ pc = [w \in Workers |-> "idle"]
  /\ job = [w \in Workers |-> <<>>]
  /\ locks = [a \in DOMAIN init(ConfigApps) |-> "free"]
  /\ hashdict = HashedDictionary
  /\ randtoken = 0
ProxyIdle ==
  /\ configapps = ConfigApps
  /\ apps = init(ConfigApps)
  /\ cache = ProxyLruCache(1)
  /\ users = [a \in DOMAIN apps |-> {}]
  /\ watch = ""
  /\ RestIdle

\* Nothing has run yet: the state launch leaves, with a cache of one entry.
Idle == LruIdle /\ ProxyIdle

\* --------------------------------------------------- the LRU on its own
\* A client of lru.py that calls get, put, del and the membership test in
\* any order and stops at the first exception.  touched is the key of the
\* call just made when that call was a get or a put of a key that was
\* present ("" otherwise); mru lists the stored keys by their last get or
\* put, most recent first; script counts the steps of scenario 6 of the
\* specification made so far (-1 once the calls leave the scenario).
KeyOrder == <<"a", "b", "c", "d">>
LruKeys == {KeyOrder[i] : i \in 1..Len(KeyOrder)}
LruVals == {1}

Touch(s, k) == <<k>> \o SelectSeq(s, LAMBDA x : x # k)
Among(s, keys) == SelectSeq(s, LAMBDA x : x \in keys)
Stored(l) == DOMAIN l.index

\* Scenario 6 of the specification: put a, put b, put c, get b, put d.
Scenario == << <<"put", "a">>, <<"put", "b">>, <<"put", "c">>,
               <<"get", "b">>, <<"put", "d">> >>
Advance(op, k) ==
  IF script >= 0 /\ script < Len(Scenario) /\ Scenario[script + 1] = <<op, k>>
  THEN script + 1 ELSE -1

InitLRU ==
  /\ \E size \in Sizes : lru = LRU(size)
  /\ touched = ""
  /\ mru = <<>>
  /\ script = 0
  /\ ProxyIdle

LruGet(k) ==
  LET r == LRU_getitem(lru, k)
  IN  /\ lru.err = "ok"
      /\ lru' = Collect(r.lru, KeyOrder)
      /\ touched' = IF k \in Stored(lru) THEN k ELSE ""
      /\ mru' = IF k \in Stored(lru) THEN Touch(mru, k) ELSE mru
      /\ script' = Advance("get", k)
      /\ UNCHANGED proxyVars

LruPut(k, v) ==
  /\ lru.err = "ok"
  /\ HasRoom(lru)
  /\ lru' = Collect(LRU_setitem(lru, k, v), KeyOrder)
  /\ touched' = IF k \in Stored(lru) THEN k ELSE ""
  /\ mru' = Among(Touch(mru, k), Stored(lru'))
  /\ script' = Advance("put", k)
  /\ UNCHANGED proxyVars

LruDel(k) ==
  /\ lru.err = "ok"
  /\ lru' = Collect(LRU_delitem(lru, k), KeyOrder)
  /\ touched' = ""
  /\ mru' = Among(mru, Stored(lru'))
  /\ script' = Advance("del", k)
  /\ UNCHANGED proxyVars

LruContains(k) ==
  /\ lru.err = "ok"
  /\ LRU_contains(lru, k) \in BOOLEAN
  /\ touched' = ""
  /\ script' = Advance("contains", k)
  /\ UNCHANGED <<lru, mru>>
  /\ UNCHANGED proxyVars

NextLRU ==
  \/ \E k \in LruKeys : LruGet(k)
  \/ \E k \in LruKeys, v \in LruVals : LruPut(k, v)
  \/ \E k \in LruKeys : LruDel(k)
  \/ \E k \in LruKeys : LruContains(k)

SpecLRU == InitLRU /\ [][NextLRU]_vars

\* The client that only puts and deletes.
NextPutDel ==
  \/ \E k \in LruKeys, v \in LruVals : LruPut(k, v)
  \/ \E k \in LruKeys : LruDel(k)

SpecPutDel == InitLRU /\ [][NextPutDel]_vars

\* C1: every put and del completes (raises nothing) and leaves at most
\* `size` entries stored.
C1_Claim == lru.err = "ok" /\ Cardinality(Stored(lru)) <= lru.size

HeadKey(l) == IF l.head = None THEN "" ELSE l.nodes[l.head].key

\* After a get or a put of a present key, that key is the head of the list.
C2_TouchedIsHead == (lru.err = "ok" /\ touched # "") => HeadKey(lru) = touched

\* A put that evicts, evicts the stored key whose last get or put is oldest.
C2_EvictsOldest ==
  (lru'.err = "ok" /\ Stored(lru') \ Stored(lru) # {} /\ mru # <<>>)
    => Stored(lru) \ Stored(lru') \subseteq {mru[Len(mru)]}

\* Capacity 2: put a, put b, put c, get b, put d leaves exactly {b, d}.
C2_Example ==
  (lru.size = 2 /\ script = Len(Scenario)) => Stored(lru) = {"b", "d"}

\* C2: a get or put of a present key makes it the most recently used entry,
\* a put evicts the least recently used key, and scenario 6 ends with {b, d}.
C2_Claim ==
  [](C2_TouchedIsHead /\ C2_Example) /\ [][C2_EvictsOldest]_lruVars

\* ------------------------------------------------- the proxy's handlers
Init ==
  /\ LruIdle
  /\ RestIdle
  /\ configapps = ConfigApps
  /\ apps = init(ConfigApps)
  /\ \E size \in Sizes : cache = ProxyLruCache(size)
  /\ users = [a \in DOMAIN apps |-> {}]
  /\ watch = ""

\* The outer keys handle_request can be asked for: a path of a request with
\* the app id of a token or "0".
OuterKeys ==
  {Join(path, "/") \o "__" \o appid :
     path \in {env.PATH_INFO : env \in Requests}, appid \in {"42", "0"}}

\* What the gate does with the exchange x in the current state, and what
\* the realtime endpoint does with the delivery env.
Handling(x) == ProxyRequestHandler(cache, users, apps, x[1], x[2])
Delivering(env) == handle_update(cache, apps, env)

\* The handler that did r ends: the heaps are collected.
Ends(r) ==
  /\ Len(r.cache.cache.nodes) <= MaxHeap
  /\ cache' = Compact(r.cache)
  /\ UNCHANGED apps
  /\ UNCHANGED lruVars
  /\ UNCHANGED restVars

\* A request to the proxy endpoint is handled to its end.
Request(x) ==
  \E r \in {Handling(x)} :
      /\ Ends(r)
      /\ users' = r.users
      /\ UNCHANGED watch

\* A POST to the realtime endpoint is handled to its end.
Update(env) ==
  \E r \in {Delivering(env)} :
      /\ Ends(r)
      /\ UNCHANGED <<users, watch>>

Next ==
  \/ \E x \in Exchanges : Request(x)
  \/ \E env \in Deliveries : Update(env)

Spec == Init /\ [][Next]_vars

\* The same handlers with the monitor watch: an invalidation that returned
\* may start the watch of one of its keys, and the handle_request that asks
\* for the watched key ends it.
Watch(keys) == \E key \in {watch} \cup (keys \cap OuterKeys) : watch' = key

WatchedRequest(x) ==
  \E r \in {Handling(x)} :
      /\ Ends(r)
      /\ users' = r.users
      /\ IF r.did.route = "do_cache"
         THEN watch' = IF r.did.key = watch THEN "" ELSE watch
         ELSE Watch(r.did.invalidated)

WatchedUpdate(env) ==
  \E r \in {Delivering(env)} :
      /\ Ends(r)
      /\ UNCHANGED users
      /\ Watch(r.did.invalidated)

NextWatch ==
  \/ \E x \in Exchanges : WatchedRequest(x)
  \/ \E env \in Deliveries : WatchedUpdate(env)

SpecWatch == Init /\ [][NextWatch]_vars

\* ------------------------------------------------------------------ claims
\* The next handle_request for the watched key did d and fetched.
C3_Fetches(d) == (d.route = "do_cache" /\ d.key = watch) => d.upstream = 1

\* C3: after cache.invalidate returned for an outer key (url__appid or
\* url__0), the next handle_request with that outer key is a miss: it
\* fetches from the upstream, whatever calls preceded the invalidation and
\* whatever calls for other keys came in between.
C3_Claim == watch # "" => \A x \in Exchanges : C3_Fetches(Handling(x).did)

\* What the gate does with the exchange x right after the handler that
\* did r.
C4_HandlingAfter(r, x) == ProxyRequestHandler(r.cache, r.users, apps, x[1], x[2])

\* Two calls of handle_request in a row that did d1 and d2 have the same
\* fingerprint: the outer key is the path and the app id, the sub-key the
\* uid and the rest of the query.
C4_SameFingerprint(d1, d2) ==
  /\ d1.route = "do_cache" /\ d2.route = "do_cache"
  /\ d1.key = d2.key /\ d1.subkey = d2.subkey

C4_SecondIsQuiet(d1, d2) == C4_SameFingerprint(d1, d2) => d2.upstream = 0
C4_AfterAnswer(r) ==
  (r.did.route = "do_cache" /\ r.did.how \in {"hit", "miss"}
   /\ r.did.statusline = "200 OK") =>
    \A x \in Exchanges : C4_SecondIsQuiet(r.did, C4_HandlingAfter(r, x).did)
\* C4: of two calls of handle_request in a row with the same fingerprint
\* and no invalidation in between, the second does not contact the
\* upstream.  Only a 200 response is ever stored, so the claim is stated
\* for a first call that returned one.
C4_Claim == \A x \in Exchanges : C4_AfterAnswer(Handling(x))

\* The gate handled a request whose check_user returned false: it did r,
\* and up is what the upstream answers.
C5_PassedThrough(r, up) ==
  r.did.user_ok = "no" =>
    /\ r.did.route = "pass_through"
    /\ r.did.how = ""
    /\ r.did.upstream = 1
    /\ r.cache = cache
    /\ up.ok => r.did.body = up.body
\* C5: a request for which check_user returns false is passed through to
\* the upstream: handle_request is not called, the response is the
\* upstream's and the cache is what it was.
C5_Claim == \A x \in Exchanges : C5_PassedThrough(Handling(x), x[2])
\* The cache holds an entry of u1 and a request arrives for a user the app
\* does not know.
C5_Witness ==
  /\ "u1__42" \in DOMAIN cache.cache.index
  /\ \E x \in Exchanges : Handling(x).did.user_ok = "no"

\* The field table that the dictionary of the call that did d holds under
\* the call's sub-key in the cache c the call left.
C6_StoredTable(c, d) == HD_getitem(c.dicts[d.hashdict], d.subkey).data

\* The engine answered the direct-user request env with a 200 response.
C6_Case(env, r) ==
  /\ r.did.route = "do_cache" /\ Len(env.PATH_INFO) = 1
  /\ r.did.how \in {"hit", "miss"} /\ r.did.statusline = "200 OK"
C6_Keys(table, fields) ==
  IF fields # <<>> THEN Range(fields) \cap DOMAIN table
  ELSE {k \in DOMAIN table : FirstChar(k) # "_"}
C6_Projected(env, r) ==
  C6_Case(env, r) =>
    /\ r.did.body.kind = "dumps"
    /\ DOMAIN r.did.body.object =
         C6_Keys(C6_StoredTable(r.cache, r.did), env.query.fields)
\* C6: a 200 response of the engine to a direct-user request, on a hit and
\* on a miss, is a JSON object whose keys are the requested fields that the
\* stored field table has or, when no fields are requested, the keys of the
\* table that do not start with '_'.
C6_Claim == \A x \in Exchanges : C6_Projected(x[1], Handling(x))
\* A hit on a direct-user request with fields, one of which the table lacks.
C6_Witness ==
  \E x \in Exchanges :
    /\ x[1].query.fields = <<"name", "gender">>
    /\ C6_Case(x[1], Handling(x)) /\ Handling(x).did.how = "hit"
    /\ DOMAIN Handling(x).did.body.object = {"name"}

\* A direct-user GET for /U by user U under the registered app of the
\* token, the query holding only access_token and fields.
C7_Case(env) ==
  /\ env.REQUEST_METHOD = "GET" /\ Len(env.PATH_INFO) = 1
  /\ env.query.access_token = Token("42", env.PATH_INFO[1])
  /\ env.query.rest = ""
\* The outer LRU of c holds the one entry outer, whose dictionary holds the
\* one sub-key subkey.
C7_Holds(c, outer, subkey) ==
  /\ DOMAIN c.cache.index = {outer}
  /\ DOMAIN c.dicts[c.cache.nodes[c.cache.index[outer]].value].keymap = {subkey}
C7_Slash(env, r) ==
  (C7_Case(env) /\ r.did.how = "miss" /\ r.did.statusline = "200 OK") =>
    C7_Holds(r.cache, "/" \o env.PATH_INFO[1] \o "__42",
             env.PATH_INFO[1] \o "__")
\* C7 as stated: after the GET misses on an empty cache and the upstream
\* answers 200, the outer LRU holds one entry, "/U__A", with the one
\* sub-key "U__".
C7_Original ==
  DOMAIN cache.cache.index = {} =>
    \A x \in Exchanges : C7_Slash(x[1], Handling(x))
C7_NoSlash(env, r) ==
  (C7_Case(env) /\ r.did.how = "miss" /\ r.did.statusline = "200 OK") =>
    C7_Holds(r.cache, env.PATH_INFO[1] \o "__42", env.PATH_INFO[1] \o "__")
\* C7: after the GET misses on an empty cache and the upstream answers 200,
\* the outer LRU holds one entry, "U__A" (the path without its leading
\* slash), with the one sub-key "U__".
C7_Claim ==
  DOMAIN cache.cache.index = {} =>
    \A x \in Exchanges : C7_NoSlash(x[1], Handling(x))
\* The state such a GET leaves.
C7_Witness == C7_Holds(cache, "u1__42", "u1__")

\* A non-GET request to /{uid}/{c} with c in INVALIDATE_MAP.
C8_Case(env) ==
  /\ env.REQUEST_METHOD # "GET" /\ Len(env.PATH_INFO) = 2
  /\ env.PATH_INFO[2] \in DOMAIN INVALIDATE_MAP
\* The outer keys under which cacheable GETs store the siblings, for the
\* app of the token and for the anonymous context.
C8_Siblings(env) ==
  {env.PATH_INFO[1] \o "/" \o s \o "__" \o a :
     s \in Range(INVALIDATE_MAP[env.PATH_INFO[2]]),
     a \in {"0"} \cup (IF env.query.access_token # <<>>
                       THEN {env.query.access_token[1]} ELSE {})}
C8_Dropped(env, r) ==
  C8_Case(env) =>
    /\ r.did.route = "pass_through" =>
         DOMAIN r.cache.cache.index \cap C8_Siblings(env) = {}
    /\ DOMAIN cache.cache.index \cap C8_Siblings(env) = {} =>
         r.did.route = "pass_through" /\ r.cache = cache
\* C8: after a non-GET request to /{uid}/{c} with c in INVALIDATE_MAP, no
\* entry stored for a sibling of c under the app or under the anonymous
\* context is left in the outer LRU; when there is none the invalidation
\* changes nothing and raises no error.
C8_Claim == \A x \in Exchanges : C8_Dropped(x[1], Handling(x))

\* The outer keys of the entries a delivery for the app names: for an
\* entry that changed a field of app.good_fields those of the uid, and for
\* every changed connection in app.good_conns those of uid/connection,
\* under the app and under the anonymous context.
C9_Named(app, app_id, entries) ==
  UNION {
    {url \o "__" \o a :
       url \in (IF app.good_fields \cap Range(entries[i].changed_fields) # {}
                THEN {entries[i].uid} ELSE {})
               \cup {entries[i].uid \o "/" \o c :
                       c \in app.good_conns \cap Range(entries[i].changed_fields)},
       a \in {app_id, "0"}} : i \in 1..Len(entries)}
\* The realtime endpoint answered the delivery env with 200: it did r.
C9_Case(env, r) == r.did.route = "update" /\ r.did.statusline = "200 OK"
C9_Keys(env) ==
  C9_Named(apps[env.PATH_INFO[2]], env.PATH_INFO[2], env.data.updates.entry)
C9_Absent(env, r) ==
  C9_Case(env, r) => DOMAIN r.cache.cache.index \cap C9_Keys(env) = {}
\* The gate handles the exchange x right after the delivery: a GET the
\* engine handles for one of the keys fetches from the upstream.
C9_Misses(env, r, d) ==
  (C9_Case(env, r) /\ d.route = "do_cache" /\ d.key \in C9_Keys(env)) =>
    d.upstream = 1
C9_Then(env, r) ==
  /\ C9_Absent(env, r)
  /\ C9_Case(env, r) =>
       \A x \in Exchanges :
         C9_Misses(env, r,
                   ProxyRequestHandler(r.cache, users, apps, x[1], x[2]).did)
\* C9: when a delivery for a registered app is answered with 200, the
\* entries it names (see C9_Named) are absent from the outer LRU when the
\* handler returns, and the next cacheable GET for one of them misses.
C9_Claim == \A env \in Deliveries : C9_Then(env, Delivering(env))
\* The delivery env passes the checks of the claim: its app is registered,
\* it has a signature and, when the app has a secret, the signature, with
\* or without "sha1=" before it, is the HMAC-SHA1 of the body.
C10_Passes(env) ==
  /\ env.PATH_INFO[2] \in DOMAIN apps
  /\ env.HTTP_X_HUB_SIGNATURE # <<>>
  /\ apps[env.PATH_INFO[2]].secret # Absent =>
       env.HTTP_X_HUB_SIGNATURE \in
         { <<hexdigest(apps[env.PATH_INFO[2]].secret, env.data)>>,
           <<"sha1=", hexdigest(apps[env.PATH_INFO[2]].secret, env.data)>> }
\* The status the claim names for a delivery that does not pass; a
\* delivery for a registered app that has no Content-Length is answered
\* with 400 before its signature is looked at.
C10_Status(env) ==
  IF env.PATH_INFO[2] \notin DOMAIN apps THEN "404 Not Found"
  ELSE IF ~env.CONTENT_LENGTH THEN "400 Bad Request"
  ELSE IF env.HTTP_X_HUB_SIGNATURE = <<>> THEN "403 Forbidden"
  ELSE "400 Bad Request"
C10_Guarded(env, r) ==
  ~C10_Passes(env) =>
    /\ r.cache = cache
    /\ r.did.invalidated = {}
    /\ r.did.statusline = C10_Status(env)
C11_Case(env) ==
  /\ env.REQUEST_METHOD = "GET"
  /\ env.query.access_token # <<>>
  /\ parse_access_token(env.query.access_token) = <<>>
C11_Anonymous(env, r) ==
  C11_Case(env) => r.did.route \in {"pass_through", "do_cache"}
\* C11: a GET whose access_token does not split into 4 pieces is handled
\* as an anonymous request through the default app: the gate passes it
\* through or hands it to the cache, and raises no exception.
C11_Claim == \A x \in Exchanges : C11_Anonymous(x[1], Handling(x))

\* The engine missed and the upstream answered up, which is not a 200.
C13_Case(r, up) ==
  /\ r.did.route = "do_cache" /\ r.did.how = "miss"
  /\ up.ok /\ up.status # 200
C13_Again(d1, d2) == C4_SameFingerprint(d1, d2) => d2.upstream = 1
C13_Relayed(r, up) ==
  C13_Case(r, up) =>
    /\ r.did.statusline = ToString(up.status) \o " " \o up.reason
    /\ r.did.headers = up.headers
    /\ r.did.body = up.body
    /\ ~HD_contains(r.cache.dicts[r.did.hashdict], r.did.subkey)
    /\ \A x \in Exchanges : C13_Again(r.did, C4_HandlingAfter(r, x).did)
\* C13: when the upstream answers a miss with a status that is not 200, the
\* caller gets the upstream's status line, headers and body as they are,
\* the dictionary records no sub-key, and the next request with the same
\* fingerprint contacts the upstream again.
C13_Claim == \A x \in Exchanges : C13_Relayed(Handling(x), x[2])

\* The gate asked the upstream and the connection failed.
C14_Case(r, up) == r.did.upstream = 1 /\ ~up.ok
C14_Answered(r, up) ==
  C14_Case(r, up) =>
    /\ r.did.statusline = "500 Internal Server Error"
    /\ r.did.body.kind = "text"
    /\ r.did.hashdict # None =>
         ~HD_contains(r.cache.dicts[r.did.hashdict], r.did.subkey)
\* C14: when the fetch from the upstream fails at the transport level, on a
\* pass-through or on a miss, the caller gets the response '500 Internal
\* Server Error' with a text body, and nothing is stored for the request.
C14_Claim == \A x \in Exchanges : C14_Answered(Handling(x), x[2])

RECURSIVE C15_From(_, _, _)
\* The keys of the k nodes of the LRU l from node n on, most recent first.
C15_From(l, n, k) ==
  IF n = None \/ k = 0 THEN <<>>
  ELSE <<l.nodes[n].key>> \o C15_From(l, l.nodes[n].successor, k - 1)
\* The outer LRU of c and the users sets us are what they are now.
C15_Same(c, us) ==
  /\ DOMAIN c.cache.index = DOMAIN cache.cache.index
  /\ C15_From(c.cache, c.cache.head, c.cache.count) =
       C15_From(cache.cache, cache.cache.head, cache.cache.count)
  /\ us = users
\* A miss that the upstream answered with another status than 200, or
\* that could not reach the upstream.
C15_FailedMiss(r) ==
  /\ r.did.route = "do_cache" /\ r.did.upstream = 1
  /\ r.did.how = "raise" \/ r.did.statusline # "200 OK"
C15_Request(r) == C15_FailedMiss(r) => C15_Same(r.cache, r.users)
\* A delivery the realtime endpoint answered with 400, 403 or 404.
C15_Update(r) ==
  (r.did.route = "update" /\ r.did.statusline # "200 OK") =>
    C15_Same(r.cache, users)
\* C15: when the handling of a request or of an update delivery ends in an
\* error outcome, the outer LRU, its keys and their order of recency, and
\* the users set of every app are what they were before.
C15_Claim ==
  /\ \A x \in Exchanges : C15_Request(Handling(x))
  /\ \A env \in Deliveries : C15_Update(Delivering(env))

\* ------------------------------------------- the HashedDictionary on its own
\* A client of hashdict.py that calls get, put, the membership test and
\* contains_hash in any order.  It puts as the callers in cache.py do: a
\* value with the body it was made from, or None with a body whose hash the
\* dictionary has.
DictKeys == {"u1__", "u2__", "0__"}
DictBodies == {"b1", "b2", "b3"}
DictValues(body) == {<<"table", body>>, <<"raw", body>>}


DictPut(key, body) ==
  /\ \E value \in DictValues(body) :
       hashdict' = HD_setitem(hashdict, key, <<value, body>>)
  /\ UNCHANGED <<apps, cache, users, watch, pc, job, locks, configapps,
                 randtoken>>
  /\ UNCHANGED lruVars

DictPutHashed(key, body) ==
  /\ contains_hash(hashdict, body)
  /\ hashdict' = HD_setitem(hashdict, key, <<None, body>>)
  /\ UNCHANGED <<apps, cache, users, watch, pc, job, locks, configapps,
                 randtoken>>
  /\ UNCHANGED lruVars

\* hashdict[key] for a key the dictionary has: the value is read and the
\* dictionary stays what it is.
DictGet(key) ==
  /\ HD_contains(hashdict, key)
  /\ UNCHANGED vars

DictContains(key) ==
  /\ HD_contains(hashdict, key) \in BOOLEAN
  /\ UNCHANGED vars

DictContainsHash(body) ==
  /\ contains_hash(hashdict, body) \in BOOLEAN
  /\ UNCHANGED vars

NextDict ==
  \/ \E key \in DictKeys, body \in DictBodies : DictPut(key, body)
  \/ \E key \in DictKeys, body \in DictBodies : DictPutHashed(key, body)
  \/ \E key \in DictKeys : DictGet(key)
  \/ \E key \in DictKeys : DictContains(key)
  \/ \E body \in DictBodies : DictContainsHash(body)

SpecDict == Idle /\ [][NextDict]_vars

\* C16: after every operation on a HashedDictionary, every hash keymap
\* points to is a key of content, so that get on a sub-key the dictionary
\* has returns the stored value and raises nothing.
C16_Claim ==
  \A key \in DOMAIN hashdict.keymap :
    /\ hashdict.keymap[key] \in DOMAIN hashdict.content
    /\ ~HD_getitem_raises(hashdict, key)
    /\ HD_getitem(hashdict, key) \in DictValues(hashdict.keymap[key][2])
\* Two sub-keys share one stored value, a third has its own.
C16_Witness ==
  /\ DOMAIN hashdict.keymap = DictKeys
  /\ hashdict.keymap["u1__"] = hashdict.keymap["u2__"]
  /\ hashdict.keymap["0__"] # hashdict.keymap["u1__"]

\* ------------------------------------------------ the registry on its own
\* launcher.launch up to apps.init(config.apps), for the lists of app
\* records a configuration file may hold.
MaxApps == 2

ConfigRecords ==
  {[app_id |-> id, whitelist_connections |-> {"feed"}] : id \in {"42", "7"}}
  \cup {[app_id |-> id, whitelist_fields |-> {"name", "id"},
         whitelist_connections |-> {"feed", "links"}] : id \in {"42", "7"}}
  \cup {[app_id |-> id, whitelist_fields |-> {"name", "link"},
         blacklist_fields |-> {"link"}] : id \in {"42", "7"}}
  \cup {[app_id |-> "default", whitelist_fields |-> {"name"}],
        [app_id |-> "default"]}

ConfigLists ==
  UNION {[1..n -> ConfigRecords] : n \in 0..MaxApps}

InitRegistry ==
  /\ LruIdle
  /\ configapps \in ConfigLists
  /\ apps = <<>>
  /\ cache = ProxyLruCache(1)
  /\ users = <<>>
  /\ watch = ""
  /\ pc = [launcher |-> "load"]
  /\ job = <<>>
  /\ locks = <<>>
  /\ hashdict = HashedDictionary
  /\ randtoken = 0

\* appdict = apps.init(config.apps)
Build ==
  /\ pc.launcher = "load"
  /\ ~init_raises(configapps)
  /\ apps' = init(configapps)
  /\ users' = [a \in DOMAIN init(configapps) |-> {}]
  /\ locks' = [a \in DOMAIN init(configapps) |-> "free"]
  /\ pc' = [launcher |-> "built"]
  /\ UNCHANGED <<cache, watch, job, configapps, hashdict, randtoken>>
  /\ UNCHANGED lruVars

\* apps.init raises and launch ends with the exception.
BuildRaises ==
  /\ pc.launcher = "load"
  /\ init_raises(configapps)
  /\ pc' = [launcher |-> "TypeError"]
  /\ UNCHANGED <<apps, users, locks, cache, watch, job, configapps, hashdict,
                 randtoken>>
  /\ UNCHANGED lruVars

NextRegistry == Build \/ BuildRaises

SpecRegistry == InitRegistry /\ [][NextRegistry]_vars

C19_Configured ==
  {configapps[i].app_id : i \in 1..Len(configapps)}
C19_Intersection(field) ==
  {f \in UNION {apps[a][field] : a \in C19_Configured} :
     \A a \in C19_Configured : f \in apps[a][field]}
\* C19: for every list of app records, the empty list included, apps.init
\* returns a registry with an entry 'default'; an entry that init makes
\* has as good_fields and good_conns the intersection of those of all the
\* configured apps.
C19_Claim ==
  /\ pc.launcher # "TypeError"
  /\ pc.launcher = "built" =>
       /\ "default" \in DOMAIN apps
       /\ "default" \notin C19_Configured =>
            /\ apps["default"].good_fields = C19_Intersection("good_fields")
            /\ apps["default"].good_conns = C19_Intersection("good_conns")
\* The same for the lists that hold a record.
C19_NonEmpty ==
  configapps # <<>> =>
    /\ pc.launcher # "TypeError"
    /\ pc.launcher = "built" =>
         /\ "default" \in DOMAIN apps
         /\ "default" \notin C19_Configured =>
              /\ apps["default"].good_fields = C19_Intersection("good_fields")
              /\ apps["default"].good_conns = C19_Intersection("good_conns")

\* ------------------------------------------- the workers in App.check_user
\* The worker threads of the proxy server, statement by statement from the
\* start of a GET to the return of app.check_user (requesthandler.py
\* 63-107, apps.py 57-73); the statements after line 107 leave the users
\* sets alone.  The realtime server delivers updates meanwhile.

\* Lines 66-91 of __iter__ for a GET: the app, the requestor and the
\* requestee check_user is called with (self is Absent when no app is
\* left, the requestor None when the token does not parse).
Viewer(env) ==
  LET default == IF "default" \in DOMAIN apps THEN "default" ELSE Absent
      with(has_token, acctoken_pieces) ==
        [env       |-> env,
         self      |-> IF has_token /\ acctoken_pieces # <<>>
                          /\ acctoken_pieces[1] \in DOMAIN apps
                       THEN acctoken_pieces[1] ELSE default,
         default   |-> default,
         requestor |-> IF acctoken_pieces = <<>> THEN "TypeError"
                       ELSE acctoken_pieces[3],
         requestee |-> IF acctoken_pieces # <<>>
                          /\ upper(env.PATH_INFO[1]) = "ME"
                          /\ acctoken_pieces[3] # ""
                       THEN acctoken_pieces[3] ELSE env.PATH_INFO[1],
         raises    |-> acctoken_pieces = <<>>,
         ok        |-> FALSE]
  IN  with(env.query.access_token # <<>>,
           IF env.query.access_token # <<>>
           THEN parse_access_token(env.query.access_token)
           ELSE <<"", "", "", "">>)

\* The GETs the workers of this specification handle.
Gets ==
  {Env("GET", p, t, <<>>, "") :
     p \in {<<"u1">>, <<"u2">>, <<"me">>},
     t \in {Token("42", "u1"), Token("42", "u2"), Token("9", "u2"),
            NoToken}}
  \cup {Env("GET", <<"u1">>, BadToken, <<>>, "")}


\* A worker takes a GET and runs __iter__ up to the call of check_user.
StartGet(w, env) ==
  /\ pc[w] = "idle"
  /\ job' = [job EXCEPT ![w] = Viewer(env)]
  /\ pc' = [pc EXCEPT ![w] = IF Viewer(env).raises THEN "TypeError"
                             ELSE IF Viewer(env).self = Absent THEN "returned"
                             ELSE "acquire"]
  /\ UNCHANGED <<apps, cache, users, watch, locks, configapps, hashdict,
                 randtoken>>
  /\ UNCHANGED lruVars

\* self.lock.acquire() of the app (line 64), then of the default app.
UserAcquire(w) ==
  /\ pc[w] \in {"acquire", "default.acquire"}
  /\ \E a \in {IF pc[w] = "acquire" THEN job[w].self ELSE job[w].default} :
       /\ locks[a] = "free"
       /\ locks' = [locks EXCEPT ![a] = w]
  /\ pc' = [pc EXCEPT ![w] = IF pc[w] = "acquire" THEN "add"
                             ELSE "default.add"]
  /\ UNCHANGED <<apps, cache, users, watch, job, configapps, hashdict,
                 randtoken>>
  /\ UNCHANGED lruVars

\* self.users.add(requestor) (line 65)
UserAdd(w) ==
  /\ pc[w] \in {"add", "default.add"}
  /\ users' = users_add(users,
                        IF pc[w] = "add" THEN job[w].self
                        ELSE job[w].default,
                        job[w].requestor)
  /\ pc' = [pc EXCEPT ![w] = IF pc[w] = "add" THEN "test"
                             ELSE "default.test"]
  /\ UNCHANGED <<apps, cache, watch, job, locks, configapps, hashdict,
                 randtoken>>
  /\ UNCHANGED lruVars

\* ok = requestee in self.users (line 66); the ok of the call on the
\* default app is dropped by line 71.
UserTest(w) ==
  /\ pc[w] \in {"test", "default.test"}
  /\ job' = [job EXCEPT ![w].ok =
               IF pc[w] = "test"
               THEN job[w].requestee \in users[job[w].self]
               ELSE @]
  /\ pc' = [pc EXCEPT ![w] = IF pc[w] = "test" THEN "release"
                             ELSE "default.release"]
  /\ UNCHANGED <<apps, cache, users, watch, locks, configapps, hashdict,
                 randtoken>>
  /\ UNCHANGED lruVars

\* self.lock.release() (line 67) and the test of line 70.
UserRelease(w) ==
  /\ pc[w] \in {"release", "default.release"}
  /\ \E a \in {IF pc[w] = "release" THEN job[w].self ELSE job[w].default} :
       locks' = [locks EXCEPT ![a] = "free"]
  /\ pc' = [pc EXCEPT ![w] =
              IF /\ pc[w] = "release"
                 /\ job[w].default # job[w].self
                 /\ job[w].default # Absent
              THEN "default.acquire" ELSE "returned"]
  /\ UNCHANGED <<apps, cache, users, watch, job, configapps, hashdict,
                 randtoken>>
  /\ UNCHANGED lruVars

\* check_user has returned (line 73), or __iter__ has raised: the worker
\* goes on to its next request.
UserDone(w) ==
  /\ pc[w] \in {"returned", "TypeError"}
  /\ pc' = [pc EXCEPT ![w] = "idle"]
  /\ job' = [job EXCEPT ![w] = <<>>]
  /\ UNCHANGED <<apps, cache, users, watch, locks, configapps, hashdict,
                 randtoken>>
  /\ UNCHANGED lruVars

NextUsers ==
  \/ \E w \in Workers, env \in Gets : StartGet(w, env)
  \/ \E w \in Workers : UserAcquire(w)
  \/ \E w \in Workers : UserAdd(w)
  \/ \E w \in Workers : UserTest(w)
  \/ \E w \in Workers : UserRelease(w)
  \/ \E w \in Workers : UserDone(w)
  \/ \E env \in Deliveries : Update(env)

SpecUsers == Idle /\ [][NextUsers]_vars

\* C17: the users set of every app only grows: no step of a gate request
\* or of an update delivery, in any interleaving of the check_user calls,
\* takes a user id out of it.
C17_Claim == [][\A a \in DOMAIN users : users[a] \subseteq users'[a]]_vars
\* check_user calls have added two users to app 42 and three to the
\* default app.
C17_Witness ==
  /\ users["42"] = {"u1", "u2"}
  /\ users["default"] = {"u1", "u2", ""}

C18_Case(env) ==
  /\ env.query.access_token # <<>>
  /\ parse_access_token(env.query.access_token) # <<>>
  /\ \/ env.PATH_INFO[1] = parse_access_token(env.query.access_token)[3]
     \/ /\ upper(env.PATH_INFO[1]) = "ME"
        /\ parse_access_token(env.query.access_token)[3] # ""
C18_Checked(w) == pc[w] = "returned" /\ C18_Case(job[w].env)
\* C18: a GET whose well-formed token names the user of the first path
\* segment (as it is, or with /me for it) gets check_user's True, whatever
\* the users sets hold and whatever the other workers do in check_user.
C18_Claim == \A w \in Workers : C18_Checked(w) => job[w].ok
\* Such a GET for /me has been checked while the other worker holds the
\* lock of the default app.
C18_Witness ==
  /\ C18_Checked("w1")
  /\ job["w1"].env.PATH_INFO = <<"me">>
  /\ locks["default"] = "w2"

\* ---------------------------------------------- the workers in the engine
\* The worker threads of the two servers inside ProxyLruCache, statement by
\* statement: handle_request (cache.py 46-115) as do_cache calls it, and
\* invalidate (117-131) as handle_update calls it.  cache.lock is "free" or
\* the worker that holds it; a worker that raises between acquire and
\* release keeps it.

\* The collection of the two heaps while workers hold dictionaries: as
\* Compact, but a dictionary in `held` stays.  at[d] is the new place of
\* dictionary d.
Sweep(self, held) ==
  LET swept(l) ==
        LET live  == {l.nodes[n].value : n \in Range(l.index)} \cup held
            order == SelectSeq([d \in 1..Len(self.dicts) |-> d],
                               LAMBDA d : d \in live)
            at    == [d \in 0..Len(self.dicts) |->
                        IF d \in live
                        THEN CHOOSE i \in 1..Len(order) : order[i] = d
                        ELSE None]
        IN  [self |-> [self EXCEPT
                         !.cache = [l EXCEPT !.nodes =
                                      [n \in 1..Len(l.nodes) |->
                                         [l.nodes[n] EXCEPT !.value =
                                            IF n \in Range(l.index)
                                            THEN at[@] ELSE None]]],
                         !.dicts = [i \in 1..Len(order) |->
                                      self.dicts[order[i]]]],
             at   |-> at]
  IN  swept(Collect(self.cache, SetToSeq(DOMAIN self.cache.index)))

\* threading.Lock.acquire returns when the lock is free.
CanAcquire_always(lock) == TRUE
CanAcquire(lock) == lock = "free"

\* The calls the workers of this specification make.
EngineGets ==
  {[query |-> [access_token |-> Token("42", uid), fields |-> <<>>,
               rest |-> ""],
    path |-> [lead |-> FALSE, parts |-> <<"u1">>]] : uid \in {"u1", "u2"}}
  \cup
  {[query |-> [access_token |-> Token("42", "u1"), fields |-> <<>>,
               rest |-> ""],
    path |-> [lead |-> FALSE, parts |-> <<"u1", "feed">>]]}
EngineAnswers == {Found, NotFound}


\* do_cache calls handle_request: lines 53-75.
StartRequest(w, call) ==
  /\ pc[w] = "idle"
  /\ Len(cache.cache.nodes) <= MaxHeap
  /\ pc' = [pc EXCEPT ![w] = "acquire"]
  /\ job' = [job EXCEPT ![w] =
               [kind |-> "request", fp |-> Fingerprint(call.query, call.path),
                appid |-> "", url |-> "", rest |-> <<>>, post |-> <<>>,
                up |-> Found,
                hashdict |-> None, value |-> <<>>, t |->
                  [statusline |-> "", headers |-> <<>>, body |-> NoBody],
                response |->
                  [statusline |-> "", headers |-> <<>>, body |-> NoBody], before |-> FALSE]]
  /\ UNCHANGED <<apps, cache, users, watch, locks, configapps, hashdict,
                 randtoken>>
  /\ UNCHANGED lruVars

\* handle_update calls cache.invalidate(app_id, url): lines 122-123.
StartInvalidate(w, appid, url) ==
  /\ pc[w] = "idle"
  /\ Len(cache.cache.nodes) <= MaxHeap
  /\ pc' = [pc EXCEPT ![w] = "acquire"]
  /\ job' = [job EXCEPT ![w] =
               [kind |-> "invalidate", fp |-> [usetable |-> FALSE, fields |-> <<>>, key |-> "", subkey |-> ""],
                appid |-> appid, url |-> url, rest |-> <<>>, post |-> <<>>,
                up |-> Found,
                hashdict |-> None, value |-> <<>>, t |->
                  [statusline |-> "", headers |-> <<>>, body |-> NoBody],
                response |->
                  [statusline |-> "", headers |-> <<>>, body |-> NoBody], before |-> FALSE]]
  /\ UNCHANGED <<apps, cache, users, watch, locks, configapps, hashdict,
                 randtoken>>
  /\ UNCHANGED lruVars

\* The gate gets a non-GET for an app (__iter__ lines 98-99) and starts
\* invalidate_for_post: the loop of cache.invalidate(app.id, url), with the
\* pass_through of line 100 to follow.  post is the list of the path's
\* segments.
StartPost(w, appid, uriparts) ==
  /\ pc[w] = "idle"
  /\ Len(cache.cache.nodes) <= MaxHeap
  /\ \E urls \in {invalidate_for_post(uriparts)} :
       /\ pc' = [pc EXCEPT ![w] = IF urls = <<>> THEN "pass_through"
                                  ELSE "acquire"]
       /\ job' = [job EXCEPT ![w] =
                    [kind |-> "invalidate", fp |-> [usetable |-> FALSE, fields |-> <<>>, key |-> "", subkey |-> ""],
                     appid |-> appid,
                     url |-> IF urls = <<>> THEN "" ELSE urls[1],
                     rest |-> IF urls = <<>> THEN <<>> ELSE Tail(urls),
                     post |-> uriparts, up |-> Found,
                     hashdict |-> None, value |-> <<>>, t |->
                       [statusline |-> "", headers |-> <<>>, body |-> NoBody],
                     response |->
                       [statusline |-> "", headers |-> <<>>, body |-> NoBody], before |-> FALSE]]
  /\ UNCHANGED <<apps, cache, users, watch, locks, configapps, hashdict,
                 randtoken>>
  /\ UNCHANGED lruVars

\* self.lock.acquire() (lines 77 and 124)
Acquire(w) ==
  /\ pc[w] = "acquire"
  /\ CanAcquire(cache.lock)
  /\ cache' = [cache EXCEPT !.lock = w]
  /\ pc' = [pc EXCEPT ![w] = "section"]
  /\ UNCHANGED <<apps, users, watch, job, locks, configapps, hashdict,
                 randtoken>>
  /\ UNCHANGED lruVars

\* Lines 78-85 of handle_request: the worker leaves with the dictionary
\* and, as value, the hash of the tuple it read (<<>> without one).
RequestSection(w) ==
  /\ pc[w] = "section"
  /\ job[w].kind = "request"
  /\ \E r \in {Locked(cache, job[w].fp.key, job[w].fp.subkey)} :
       /\ cache' = [r.self EXCEPT !.lock = w]
       /\ pc' = [pc EXCEPT ![w] = IF r.self.lock = "held" THEN "raised"
                                  ELSE "release"]
       /\ job' = [job EXCEPT
                    ![w].hashdict = r.hashdict,
                    ![w].value =
                       IF r.self.lock # "held"
                          /\ HD_contains(r.self.dicts[r.hashdict],
                                         job[w].fp.subkey)
                       THEN <<r.self.dicts[r.hashdict].keymap[job[w].fp.subkey]>>
                       ELSE <<>>]
  /\ UNCHANGED <<apps, users, watch, locks, configapps, hashdict, randtoken>>
  /\ UNCHANGED lruVars

\* Lines 125-130 of invalidate.  A worker that has fetched the answer for
\* one of the two keys and has not returned yet is marked: its answer is
\* from before the invalidation.
InvalidateSection(w) ==
  /\ pc[w] = "section"
  /\ job[w].kind = "invalidate"
  /\ \E r \in {invalidate(cache, job[w].appid, job[w].url)} :
       /\ cache' = [r EXCEPT !.lock = w]
       /\ pc' = [pc EXCEPT ![w] = IF r.lock = "held" THEN "raised"
                                  ELSE "release"]
       /\ job' = [v \in Workers |->
                    IF /\ r.lock # "held"
                       /\ pc[v] \in {"store", "strip", "done"}
                       /\ job[v].kind = "request"
                       /\ job[v].fp.key \in
                            InvalidateKeys(job[w].appid, job[w].url)
                    THEN [job[v] EXCEPT !.before = TRUE]
                    ELSE job[v]]
  /\ UNCHANGED <<apps, users, watch, locks, configapps, hashdict, randtoken>>
  /\ UNCHANGED lruVars

\* self.lock.release() (lines 86 and 131)
Release(w) ==
  /\ pc[w] = "release"
  /\ cache' = [cache EXCEPT !.lock = "free"]
  /\ pc' = [pc EXCEPT ![w] =
              IF job[w].kind = "invalidate"
              THEN IF job[w].rest # <<>> THEN "acquire"
                   ELSE IF job[w].post # <<>> THEN "pass_through"
                   ELSE "done"
              ELSE IF job[w].value # <<>> THEN "hit" ELSE "fetch"]
  /\ job' = IF job[w].kind = "invalidate" /\ job[w].rest # <<>>
            THEN [job EXCEPT ![w].url = job[w].rest[1],
                             ![w].rest = Tail(job[w].rest)]
            ELSE job
  /\ UNCHANGED <<apps, users, watch, locks, configapps, hashdict, randtoken>>
  /\ UNCHANGED lruVars

\* pass_through (requesthandler.py 174-182) after invalidate_for_post: the
\* upstream gets the non-GET and answers.
PassThrough(w, up) ==
  /\ pc[w] = "pass_through"
  /\ \E r \in {pass_through(up)} :
       job' = [job EXCEPT ![w].up = up,
                          ![w].response =
                             [statusline |-> r.statusline,
                              headers |-> r.headers, body |-> r.body]]
  /\ pc' = [pc EXCEPT ![w] = "done"]
  /\ UNCHANGED <<apps, cache, users, watch, locks, configapps, hashdict,
                 randtoken>>
  /\ UNCHANGED lruVars

\* Step 3 (lines 88-93): the tuple is returned; its headers are the list
\* the dictionary holds, as it is when the server sends them.
HitResponse(w) ==
  /\ pc[w] = "hit"
  /\ \E h \in {Hit(cache, job[w].hashdict, job[w].fp,
                   cache.dicts[job[w].hashdict].content[job[w].value[1]])} :
       job' = [job EXCEPT ![w].response =
                 [statusline |-> h.statusline, headers |-> h.headers,
                  body |-> h.body]]
  /\ pc' = [pc EXCEPT ![w] = "done"]
  /\ UNCHANGED <<apps, cache, users, watch, locks, configapps, hashdict,
                 randtoken>>
  /\ UNCHANGED lruVars

\* fetch_tuple (line 171 in _fetchtable, line 111): the upstream answers.
Fetch(w, up) ==
  /\ pc[w] = "fetch"
  /\ job' = [job EXCEPT ![w].up = up]
  /\ pc' = [pc EXCEPT ![w] = "store"]
  /\ UNCHANGED <<apps, cache, users, watch, locks, configapps, hashdict,
                 randtoken>>
  /\ UNCHANGED lruVars

\* The rest of _fetchtable (lines 174-183) with the table; lines 113-115
\* without.
Store(w) ==
  /\ pc[w] = "store"
  /\ IF job[w].fp.usetable
     THEN \E t \in {_fetchtable(cache.dicts[job[w].hashdict],
                               job[w].fp.subkey, job[w].up)} :
            /\ cache' = [cache EXCEPT !.dicts[job[w].hashdict] = t.hashdict]
            /\ job' = [job EXCEPT ![w].t =
                         [statusline |-> t.statusline, headers |-> t.headers,
                          body |-> t.table]]
            /\ pc' = [pc EXCEPT ![w] = "strip"]
     ELSE \E m \in {MissBody(cache, job[w].hashdict, job[w].fp,
                             fetch_tuple(job[w].up))} :
            /\ cache' = m.cache
            /\ job' = [job EXCEPT ![w].response =
                         [statusline |-> m.statusline, headers |-> m.headers,
                          body |-> m.body]]
            /\ pc' = [pc EXCEPT ![w] = "done"]
  /\ UNCHANGED <<apps, users, watch, locks, configapps, hashdict, randtoken>>
  /\ UNCHANGED lruVars

\* Step 4.5 (lines 101-109): Content-Length leaves the list of headers,
\* which is the list of the stored tuple.
Strip(w) ==
  /\ pc[w] = "strip"
  /\ \E m \in {MissTable(cache, job[w].hashdict, job[w].fp,
                         [hashdict |-> cache.dicts[job[w].hashdict],
                          raised |-> FALSE,
                          statusline |-> job[w].t.statusline,
                          headers |-> job[w].t.headers,
                          table |-> job[w].t.body,
                          status |-> job[w].up.status])} :
       /\ cache' = m.cache
       /\ job' = [job EXCEPT ![w].response =
                    [statusline |-> m.statusline, headers |-> m.headers,
                     body |-> m.body]]
  /\ pc' = [pc EXCEPT ![w] = "done"]
  /\ UNCHANGED <<apps, users, watch, locks, configapps, hashdict, randtoken>>
  /\ UNCHANGED lruVars

\* The call has returned, or raised: the worker is free for the next
\* request, and what nobody refers to is collected.
Return(w) ==
  /\ pc[w] \in {"done", "raised"}
  /\ \E s \in {Sweep(cache, {job[v].hashdict : v \in {u \in Workers \ {w} :
                                 pc[u] # "idle" /\ job[u].hashdict # None}})} :
       /\ cache' = s.self
       /\ job' = [v \in Workers |->
                    IF v = w THEN <<>>
                    ELSE IF pc[v] # "idle"
                    THEN [job[v] EXCEPT !.hashdict = s.at[@]]
                    ELSE job[v]]
  /\ pc' = [pc EXCEPT ![w] = "idle"]
  /\ UNCHANGED <<apps, users, watch, locks, configapps, hashdict, randtoken>>
  /\ UNCHANGED lruVars

NextWorkers ==
  \/ \E w \in Workers, call \in EngineGets : StartRequest(w, call)
  \/ \E w \in Workers : StartInvalidate(w, "42", "u1")
  \/ \E w \in Workers : StartPost(w, "42", <<"u1", "links">>)
  \/ \E w \in Workers, up \in EngineAnswers : PassThrough(w, up)
  \/ \E w \in Workers : Acquire(w)
  \/ \E w \in Workers : RequestSection(w)
  \/ \E w \in Workers : InvalidateSection(w)
  \/ \E w \in Workers : Release(w)
  \/ \E w \in Workers : HitResponse(w)
  \/ \E w \in Workers, up \in EngineAnswers : Fetch(w, up)
  \/ \E w \in Workers : Store(w)
  \/ \E w \in Workers : Strip(w)
  \/ \E w \in Workers : Return(w)

SpecWorkers == Idle /\ [][NextWorkers]_vars

C12_HasContentLength(headers) ==
  \E i \in 1..Len(headers) : upper(headers[i][1]) = "CONTENT-LENGTH"
C12_Returned(w) ==
  /\ pc[w] = "done"
  /\ job[w].kind = "request"
  /\ job[w].fp.usetable
  /\ job[w].response.statusline = "200 OK"
\* C12: a status-200 response handle_request returns for a request of a
\* user's own fields carries no Content-Length header, on a miss and on a
\* hit, the hit included that one worker serves while another worker is
\* between storing the entry and stripping the header.
C12_Claim ==
  \A w \in Workers :
    C12_Returned(w) => ~C12_HasContentLength(job[w].response.headers)
\* The same for handlers that run one after the other.
C12_Sequential ==
  \A x \in Exchanges :
    LET ran(d) ==
          (/\ d.route = "do_cache" /\ d.how \in {"hit", "miss"}
           /\ Len(x[1].PATH_INFO) = 1 /\ d.statusline = "200 OK")
            => ~C12_HasContentLength(d.headers)
    IN  ran(Handling(x).did)

C20_InSection(w) == pc[w] \in {"section", "release"}
C20_Outside(w) == pc[w] \in {"hit", "fetch", "store", "strip", "done"}
\* C20: at most one worker at a time is between the acquire and the
\* release of handle_request or invalidate, where every operation on the
\* outer LRU is, and the worker there holds the lock; no worker holds the
\* lock while it fetches from the upstream, stores or builds its response.
C20_Claim ==
  /\ Cardinality({w \in Workers : C20_InSection(w)}) <= 1
  /\ \A w \in Workers : C20_InSection(w) => cache.lock = w
  /\ \A w \in Workers : C20_Outside(w) => cache.lock # w
\* One worker is in the section of invalidate while the other, which has
\* released the lock, waits for the upstream.
C20_Witness ==
  /\ pc["w1"] = "section" /\ job["w1"].kind = "invalidate"
  /\ pc["w2"] = "fetch"

\* One worker that takes the calls one after the other, under a fair
\* scheduler: when it can run its critical section, or release the lock,
\* it does.
NextSerial ==
  \/ \E call \in EngineGets : StartRequest("w1", call)
  \/ StartInvalidate("w1", "42", "u1")
  \/ Acquire("w1")
  \/ RequestSection("w1")
  \/ InvalidateSection("w1")
  \/ Release("w1")
  \/ HitResponse("w1")
  \/ \E up \in EngineAnswers : Fetch("w1", up)
  \/ Store("w1")
  \/ Strip("w1")
  \/ Return("w1")

FairSerial ==
  /\ Idle
  /\ [][NextSerial]_vars
  /\ WF_vars(RequestSection("w1") \/ InvalidateSection("w1") \/ Release("w1"))

C21_Failed(w) == pc[w] = "raised"
\* No call fails between acquire and release.
C21_NoFailure == \A w \in Workers : ~C21_Failed(w)
\* C21: every acquisition of the engine lock is followed by its release:
\* whatever handle_request and invalidate calls follow one another, a lock
\* that is held becomes free again, so that no later call waits for ever.
C21_Claim == \A w \in Workers : (cache.lock = w) ~> (cache.lock = "free")

\* --------------------------------- the workers in one HashedDictionary
\* Two workers on one installed dictionary: the put of a miss completion
\* (_fetchtable lines 177-181 into __setitem__, which no lock guards),
\* statement by statement, and the lookup of handle_request (lines 81-82).
\* The value a worker stores is its own tuple object: [by, body].

\* Lines 54-56: the data are made, hashed, and keymap[key] is written.
PutKeymap(w, key, body) ==
  /\ pc[w] \in {"idle", "looked"}
  /\ job' = [job EXCEPT ![w] =
               [key |-> key, body |-> body, valhash |-> sha1(body),
                absent |-> FALSE, result |-> "", by |-> ""]]
  /\ hashdict' = [hashdict EXCEPT
                    !.keymap = DictSet(@, key, sha1(body))]
  /\ pc' = [pc EXCEPT ![w] = "57"]
  /\ UNCHANGED <<apps, cache, users, watch, locks, configapps, randtoken>>
  /\ UNCHANGED lruVars

\* Line 57: if not valhash in self.content
PutTest(w) ==
  /\ pc[w] = "57"
  /\ job' = [job EXCEPT ![w].absent =
               job[w].valhash \notin DOMAIN hashdict.content]
  /\ pc' = [pc EXCEPT ![w] = "58"]
  /\ UNCHANGED <<apps, cache, users, watch, locks, configapps, hashdict,
                 randtoken>>
  /\ UNCHANGED lruVars

\* Line 58: self.content[valhash] = stored_data, when the test said so.
PutContent(w) ==
  /\ pc[w] = "58"
  /\ hashdict' = IF job[w].absent
                 THEN [hashdict EXCEPT
                         !.content = DictSet(@, job[w].valhash,
                                       [by |-> w, body |-> job[w].body])]
                 ELSE hashdict
  /\ pc' = [pc EXCEPT ![w] = "idle"]
  /\ job' = [job EXCEPT ![w] = <<>>]
  /\ UNCHANGED <<apps, cache, users, watch, locks, configapps, randtoken>>
  /\ UNCHANGED lruVars

\* Lines 81-82 of handle_request: if subkey in hashdict: value =
\* hashdict[subkey].  The worker keeps what it saw.
Lookup(w, key) ==
  /\ pc[w] \in {"idle", "looked"}
  /\ job' = [job EXCEPT ![w] =
               [key |-> key, body |-> "", valhash |-> <<>>, absent |-> FALSE,
                result |-> IF ~HD_contains(hashdict, key) THEN "absent"
                           ELSE IF HD_getitem_raises(hashdict, key)
                           THEN "KeyError" ELSE "value",
                by |-> IF HD_contains(hashdict, key)
                          /\ ~HD_getitem_raises(hashdict, key)
                       THEN HD_getitem(hashdict, key).by ELSE ""]]
  /\ pc' = [pc EXCEPT ![w] = "looked"]
  /\ UNCHANGED <<apps, cache, users, watch, locks, configapps, hashdict,
                 randtoken>>
  /\ UNCHANGED lruVars

NextPuts ==
  \/ \E w \in Workers, key \in DictKeys, body \in DictBodies :
       PutKeymap(w, key, body)
  \/ \E w \in Workers : PutTest(w)
  \/ \E w \in Workers : PutContent(w)
  \/ \E w \in Workers, key \in DictKeys : Lookup(w, key)

SpecPuts == Idle /\ [][NextPuts]_vars

C22_Looked(w) == pc[w] = "looked"
\* C22: a lookup of a sub-key that runs while another worker puts that
\* sub-key sees the sub-key absent or the stored value; in no interleaving
\* with the statements of the put does it raise.
C22_Claim ==
  \A w \in Workers : C22_Looked(w) => job[w].result \in {"absent", "value"}

C23_Kept(h) ==
  h \in DOMAIN hashdict'.content /\ hashdict'.content[h] = hashdict.content[h]
C23_LastWriter ==
  \E w \in Workers :
    /\ pc'[w] = "57" /\ pc[w] # "57"
    /\ hashdict'.keymap =
         DictSet(hashdict.keymap, job'[w].key, job'[w].valhash)
\* keymap changes by line 56 of a put only, to that put's hash.
C23_Keymap ==
  [][hashdict'.keymap # hashdict.keymap => C23_LastWriter]_vars
\* C23: when two workers put the same sub-key, keymap[sub_key] is the hash
\* of the put that wrote it last, and an entry of content, once written, is
\* neither replaced nor removed by a later put of a body with that hash.
C23_Claim ==
  [][/\ hashdict'.keymap # hashdict.keymap => C23_LastWriter
     /\ \A h \in DOMAIN hashdict.content : C23_Kept(h)]_vars

C24_Installed(d) ==
  \E k \in DOMAIN cache.cache.index :
    cache.cache.nodes[cache.cache.index[k]].value = d
C24_Invalidated(w) ==
  pc[w] = "release" /\ job[w].kind = "invalidate"
C24_Before(w) ==
  pc[w] \in {"store", "strip", "done"} /\ job[w].kind = "request"
  /\ job[w].before
\* C24: an invalidate that has run its section leaves neither of its two
\* keys in the LRU, and the dictionary of a worker that fetched before it
\* is not in the LRU any more: what that worker stores is in no dictionary
\* a later handle_request finds.
C24_Claim ==
  \A w \in Workers :
    /\ C24_Invalidated(w) =>
         InvalidateKeys(job[w].appid, job[w].url)
           \cap DOMAIN cache.cache.index = {}
    /\ C24_Before(w) => ~C24_Installed(job[w].hashdict)
\* A worker is about to store an answer from before the invalidation while
\* a later request has a new dictionary under the same key.
C24_Witness ==
  /\ C24_Before("w1") /\ pc["w1"] = "store"
  /\ job["w1"].fp.key \in DOMAIN cache.cache.index
  /\ pc["w2"] = "fetch" /\ job["w2"].fp.key = job["w1"].fp.key

\* The outer keys of the siblings of the connection a non-GET names, under
\* the app and under the anonymous context.
C25_Siblings(j) ==
  {j.post[1] \o "/" \o s \o "__" \o a :
     s \in Range(INVALIDATE_MAP[j.post[2]]), a \in {"0", j.appid}}
C25_Stored(c, key) ==
  /\ key \in DOMAIN c.cache.index
  /\ c.cache.nodes[c.cache.index[key]].value # None
  /\ DOMAIN c.dicts[c.cache.nodes[c.cache.index[key]].value].keymap # {}
C25_Finishes(w) == pc[w] = "pass_through" /\ pc'[w] = "done"
\* C25: when the pass-through of a non-GET to /{uid}/{c}, c in
\* INVALIDATE_MAP, finishes, the cache holds no stored answer for a sibling
\* of c: what it held was invalidated, and a GET that ran between the
\* invalidation and the pass-through left nothing either.
C25_Claim ==
  [][\A w \in Workers :
       C25_Finishes(w) =>
         \A key \in C25_Siblings(job[w]) : ~C25_Stored(cache', key)]_vars

\* The outer keys an invalidation can ask for: a path with "0" or the id of
\* an app of the registry.
C26_Targets ==
  {Join(path, "/") \o "__" \o appid :
     path \in {env.PATH_INFO : env \in Requests \cup Guests}
              \cup {<<"u1">>, <<"u2">>, <<"u2", "feed">>},
     appid \in {"0"} \cup DOMAIN apps}
C26_Targeted(r) == DOMAIN r.cache.cache.index \subseteq C26_Targets
\* C26: every outer key handle_request creates has the app id "0" or the
\* id of an app of the registry, also when the token of the request names
\* an app the registry lacks and the gate took the default app for it.
C26_Claim ==
  \A x \in (Requests \cup Guests) \X Upstreams : C26_Targeted(Handling(x))

\* The app the gate takes for the request env, and the conditions under
\* which the request may reach the cache.
C27_App(env) ==
  LET pieces == parse_access_token(env.query.access_token)
  IN  IF env.query.access_token # <<>> /\ pieces # <<>>
         /\ pieces[1] \in DOMAIN apps
      THEN pieces[1] ELSE "default"
C27_Fields(env) ==
  IF env.query.fields # <<>> THEN env.query.fields ELSE USER_FIELDS
C27_Admissible(env) ==
  /\ env.REQUEST_METHOD = "GET"
  /\ Len(env.PATH_INFO) \in {1, 2}
  /\ Len(env.PATH_INFO) = 2 =>
       /\ env.PATH_INFO[2] \notin connections_blacklist
       /\ env.PATH_INFO[2] \in apps[C27_App(env)].good_conns
  /\ Len(env.PATH_INFO) = 1 =>
       Range(C27_Fields(env)) \subseteq apps[C27_App(env)].good_fields
C27_Gate(env, r) ==
  /\ r.did.route = "do_cache" => C27_Admissible(env)
  /\ ~C27_Admissible(env) =>
       /\ r.did.route = "pass_through"
       /\ DOMAIN r.cache.cache.index \subseteq DOMAIN cache.cache.index
\* C27: the gate hands a request to handle_request only if it is a GET of
\* one or two segments whose connection is not blacklisted and is in the
\* app's good_conns, or whose fields (USER_FIELDS without a fields
\* parameter) are all in the app's good_fields; every other request is
\* passed through and creates no entry of the cache.
C27_Claim ==
  \A x \in (Requests \cup Guests) \X Upstreams : C27_Gate(x[1], Handling(x))

\* The gate handled the request env for a user directly and did r: a miss
\* that returned 200.
C28_Missed(env, r) ==
  /\ Len(env.PATH_INFO) = 1
  /\ r.did.route = "do_cache" /\ r.did.how = "miss"
  /\ r.did.statusline = "200 OK"
\* A request handled right after it with the same outer key (the same path
\* under the same app) does not contact the upstream.
C28_Served(d1, d2) ==
  (d2.route = "do_cache" /\ d2.key = d1.key) => d2.upstream = 0
C28_Amortized(env, r) ==
  C28_Missed(env, r) =>
    \A y \in (Requests \cup Guests) \X Upstreams :
       C28_Served(r.did, C4_HandlingAfter(r, y).did)
\* C28: after a miss for a user's path P under app A returned 200, and
\* with no invalidation or eviction of the entry since, every cacheable
\* request for P under A, of whatever requesting user and whatever subset
\* of the app's fields, is answered without a fetch from the upstream.
C28_Claim == \A x \in Exchanges : C28_Amortized(x[1], Handling(x))

\* Worker w is between the acquire and the release of the lock of app a.
C29_Inside(w, a) ==
  \/ pc[w] \in {"add", "test", "release"} /\ job[w].self = a
  \/ /\ pc[w] \in {"default.add", "default.test", "default.release"}
     /\ job[w].default = a
\* Worker w has made the membership test of its call on its app.
C29_Tested(w) ==
  pc[w] \in {"release", "default.acquire", "default.add", "default.test",
             "default.release", "returned"}
\* Workers w and v run check_user(a, b) and check_user(b, a) on one app.
C29_Crossed(w, v) ==
  /\ w # v
  /\ job[w] # <<>> /\ job[v] # <<>>
  /\ ~job[w].raises /\ ~job[v].raises
  /\ job[w].self = job[v].self
  /\ job[w].requestor = job[v].requestee
  /\ job[w].requestee = job[v].requestor
\* C29: no two calls of check_user are between the add and the test on the
\* same app at once, and of two calls check_user(a, b) and check_user(b, a)
\* in progress on one app that have both made their test, at least one has
\* found its requestee.
C29_Claim ==
  /\ \A a \in DOMAIN apps : \A w, v \in Workers :
       (C29_Inside(w, a) /\ C29_Inside(v, a)) => w = v
  /\ \A w, v \in Workers :
       (C29_Crossed(w, v) /\ C29_Tested(w) /\ C29_Tested(v))
         => (job[w].ok \/ job[v].ok)
\* Both calls are in progress, for two different users: the one that came
\* first did not find its requestee and is in its call on the default app,
\* the other found it and still holds the lock.
C29_Witness ==
  /\ C29_Crossed("w1", "w2")
  /\ job["w1"].requestor # job["w1"].requestee
  /\ pc["w1"] = "default.test" /\ ~job["w1"].ok
  /\ pc["w2"] = "release" /\ job["w2"].ok

\* A request to /me or /me/{connection}, the uid of its token ("" when it
\* has no token, no user token or a token without a uid), and the outer
\* keys of its path with "me" replaced by that uid.
C30_Me(env) == upper(env.PATH_INFO[1]) = "ME"
C30_Uid(env) ==
  LET pieces == parse_access_token(env.query.access_token)
  IN  IF env.query.access_token = <<>> \/ pieces = <<>> THEN ""
      ELSE pieces[3]
C30_Keys(env) ==
  {Join([env.PATH_INFO EXCEPT ![1] = C30_Uid(env)], "/") \o "__" \o appid :
     appid \in {"0", "42", "7", "9"}}
\* The gate handled the /me request env and did r.
C30_Keyed(env, r) ==
  /\ r.did.route = "do_cache" => r.did.key \in C30_Keys(env)
  /\ C30_Uid(env) = "" =>
       /\ r.did.route # "do_cache" /\ r.did.how = ""
       /\ r.cache = cache
\* The /me request x[1] is handled, and then the /me request y[1] of
\* another user's token: they get different entries.
C30_Apart(x, y) ==
  (/\ C30_Uid(x[1]) # C30_Uid(y[1])
   /\ Handling(x).did.route = "do_cache"
   /\ C4_HandlingAfter(Handling(x), y).did.route = "do_cache")
    => Handling(x).did.key # C4_HandlingAfter(Handling(x), y).did.key
C30_Requests == {env \in Requests \cup Guests : C30_Me(env)}
RECURSIVE C32_Chain(_, _, _)
\* The nodes a walk from node n along the successor links visits, after
\* those of seq; the walk stops at a node it has visited, which it appends
\* once more.
C32_Chain(ns, n, seq) ==
  IF n = None THEN seq
  ELSE IF n \in Range(seq) THEN Append(seq, n)
  ELSE C32_Chain(ns, ns[n].successor, Append(seq, n))
C32_List(l) == C32_Chain(l.nodes, l.head, <<>>)
C32_Acyclic(l) == Cardinality(Range(C32_List(l))) = Len(C32_List(l))
C32_Agree(l) ==
  /\ C32_Acyclic(l)
  /\ Range(l.index) = Range(C32_List(l))
  /\ \A k \in DOMAIN l.index : l.nodes[l.index[k]].key = k
  /\ l.count = Cardinality(DOMAIN l.index)
  /\ (l.head = None) <=> (DOMAIN l.index = {})
  /\ (l.tail = None) <=> (DOMAIN l.index = {})
  /\ l.head # None => l.nodes[l.head].prev = None
  /\ l.tail # None =>
       /\ l.nodes[l.tail].successor = None
       /\ l.tail = C32_List(l)[Len(C32_List(l))]
\* C32: after any sequence of gets, puts, dels and membership tests that
\* completed, the list and the index of the LRU agree: the nodes of the
\* index are those a walk from head along the successor links reaches, the
\* walk meets no node twice, count is the number of keys, head has no
\* predecessor, tail is the last node of the walk, and head and tail are
\* None exactly when the LRU is empty.
C32_Claim == lru.err = "ok" => C32_Agree(lru)

\* ======================================================================
\* The subscription handshake: rturegister.py and handle_validate.
\* ======================================================================

RECURSIVE str(_)
\* str(n) of a number that is not negative, as urlencode puts the
\* verify_token into the registration.
str(n) ==
  LET digit(d) == <<"0", "1", "2", "3", "4", "5", "6", "7", "8", "9">>[d + 1]
  IN  IF n < 10 THEN digit(n) ELSE str(n \div 10) \o digit(n % 10)

\* RealtimeUpdateHandler.handle_validate: the status line and the body of
\* the response.  req_data maps the parameters of the query string to
\* their first values (parse_qs leaves out a parameter without a value).
\* The values are strings and randtoken is a number: Python's == of a str
\* and an int is False whatever they hold.
handle_validate(req_data) ==
  LET eq(a, b) == a.type = b.type /\ a.value = b.value
      respond(statusline, message) ==
        [statusline |-> statusline, body |-> message]
  IN  IF \/ "hub.mode" \notin DOMAIN req_data
         \/ req_data["hub.mode"] # "subscribe"
      THEN respond("400 Bad Request", "expecting hub.mode")
      ELSE IF \/ "hub.verify_token" \notin DOMAIN req_data
              \/ eq([type |-> "str", value |-> req_data["hub.verify_token"]],
                    [type |-> "int", value |-> randtoken])
      THEN respond("403 Forbidden", "Request validation failed")
      ELSE IF "hub.challenge" \notin DOMAIN req_data
      THEN respond("400 Bad Request", "Missing challenge")
      ELSE respond("200 OK", req_data["hub.challenge"])

\* register_with_token, for one app of the registry: the first call draws
\* the token, the later calls use it.
Register ==
  /\ \E n \in 1..MaxToken : randtoken' = IF randtoken = 0 THEN n ELSE randtoken
  /\ UNCHANGED <<apps, cache, users, watch, pc, job, locks, configapps,
                 hashdict>>
  /\ UNCHANGED lruVars

\* A worker of the realtime server takes a GET with the query req_data and
\* answers it.
Validate(w, req_data) ==
  /\ pc[w] \in {"idle", "validated"}
  /\ pc' = [pc EXCEPT ![w] = "validated"]
  /\ job' = [job EXCEPT ![w] = [req_data |-> req_data,
                                response |-> handle_validate(req_data)]]
  /\ UNCHANGED <<apps, cache, users, watch, locks, configapps, hashdict,
                 randtoken>>
  /\ UNCHANGED lruVars

\* The queries: hub.mode missing, subscribe or another; hub.verify_token
\* missing, a number in digits or another text; hub.challenge missing or
\* there.
NextValidate ==
  \/ Register
  \/ \E w \in Workers :
       \E mode \in {Absent, "subscribe", "unsubscribe"},
          token \in {Absent, "x"} \cup {str(n) : n \in 0..MaxToken},
          challenge \in {Absent, "c1"} :
         \E given \in {[k \in {"hub.mode", "hub.verify_token",
                               "hub.challenge"} |->
                          CASE k = "hub.mode" -> mode
                            [] k = "hub.verify_token" -> token
                            [] OTHER -> challenge]} :
           Validate(w, [k \in {p \in DOMAIN given : given[p] # Absent}
                          |-> given[k]])

SpecValidate == Idle /\ [][NextValidate]_vars

\* Worker w answers a handshake in this step.
C31_Answers(w) ==
  /\ pc'[w] = "validated"
  /\ pc[w] # "validated" \/ job'[w] # job[w]
\* The handshake req_data must be rejected: it has no hub.verify_token, or
\* the one it has is the token the registration drew.
C31_Rejected(req_data) ==
  \/ "hub.verify_token" \notin DOMAIN req_data
  \/ randtoken # 0 /\ req_data["hub.verify_token"] = str(randtoken)
C31_Answer(req_data, response) ==
  ("hub.mode" \in DOMAIN req_data /\ req_data["hub.mode"] = "subscribe") =>
    /\ response.statusline = "403 Forbidden" <=> C31_Rejected(req_data)
    /\ ~C31_Rejected(req_data) =>
         IF "hub.challenge" \in DOMAIN req_data
         THEN /\ response.statusline = "200 OK"
              /\ response.body = req_data["hub.challenge"]
         ELSE response.statusline = "400 Bad Request"
\* C31: a GET handshake with hub.mode=subscribe is answered 403 exactly
\* when hub.verify_token is missing or is the random token of the
\* registration; otherwise it is answered 200 with hub.challenge as the
\* body when the challenge is there, and 400 when it is not.
C31_Claim ==
  [][\A w \in Workers :
       C31_Answers(w) => C31_Answer(job'[w].req_data, job'[w].response)]_vars

====
